---- MODULE Spec2Model ----
(***************************************************************************)
(* A model of the adaptive control kernel of FREE-LLM-DRIVER:              *)
(*   src/src/core/neural_kernel.py            (vital monitor, lifecycle)   *)
(*   src/src/core/emotional_system.py         (risk assessor, memory)      *)
(*   src/src/core/executive_controller.py     (scheduler, decision engine) *)
(*   src/src/core/integrated_neural_system.py (per-goal pipeline, loops)   *)
(*                                                                         *)
(* Real numbers are kept exactly as scaled integers; every scale is named  *)
(* where it is used.  Each component has a specification of its own        *)
(* (SpecAttn, SpecMem, SpecKernel, SpecGoal) over the one set of variables.*)
(***************************************************************************)
EXTENDS Integers, Sequences, FiniteSets, TLC

VARIABLES
    \* ---- AttentionManager (executive_controller.py) ----
    attention_resource,   \* [total_capacity, allocated, available, efficiency, fatigue_level]
    active_tasks,         \* task_id -> CognitiveTask (a function on the active ids)
    attention_history,    \* number of entries of the deque attention_history
    last_allocations,     \* what the last allocate_attention call returned
    attn_rounds,          \* allocate_attention calls made so far
    attn_releases,        \* release_attention calls that released a task
    attn_now,             \* wall clock of the scheduler, seconds
    \* ---- AdaptiveMemory (emotional_system.py) ----
    episodic_memory,      \* the dict task_id -> Experience, as the sequence of its values in dict order
    semantic_memory,      \* <<task_type, pattern>> -> SemanticAggregate
    working_memory_len,   \* len of the deque working_memory (maxlen 50)
    memory_stats,         \* the counters of memory_stats
    mem_now,              \* wall clock of the memory, days
    mem_stores,           \* store_experience calls made so far
    \* ---- NeuralKernel (neural_kernel.py) ----
    always_running,       \* NeuralKernel.always_running
    monitoring_task,      \* NeuralKernel.monitoring_task: 0 is None, else an index of mon_tasks
    start_time,           \* NeuralKernel.start_time: NoTime is None
    kernel_stats,         \* NeuralKernel.stats
    mon_tasks,            \* every continuous_monitoring task created, in creation order
    health_history_len,   \* len(HealthMonitor.history)
    emergency_log_len,    \* len(EmergencyHandler.emergency_log)
    last_fault,           \* the fault of the last monitoring iteration
    prev_fault,           \* the fault of the iteration before it
    stop_waiters,         \* the stop_neural_kernel calls suspended in `await self.monitoring_task`
    stop_outcome,         \* how the last stop_neural_kernel call that ended did end
    calls,                \* start, stop and initialize calls made
    last_call,            \* the kind of the last of them
    call_kinds,           \* the kinds of all of them
    wall_clock,           \* the wall clock, tenths of a second
    ticks,                \* clock advances so far
    \* ---- FeedbackLoopManager (integrated_neural_system.py) ----
    fb_tasks,             \* every _continuous_feedback_management task created
    active_loops,         \* FeedbackLoopManager.active_loops: loop_id -> FeedbackLoop
    fb_metrics,           \* FeedbackLoopManager.performance_metrics
    loop_history_len,     \* len(FeedbackLoopManager.loop_history)
    last_pass,            \* the loops the last pass executed and those whose execution failed
    \* ---- IntegratedNeuralSystem (integrated_neural_system.py) ----
    components,           \* which of neural_kernel, emotional_system, executive_controller are set
    current_integration_level,  \* NeuralIntegrationLevel, 1..4
    learning_metrics,     \* IntegratedNeuralSystem.learning_metrics
    processing_history_len,     \* len(processing_history)
    goals,                \* every process_goal_neural call made, in call order
    \* ---- ThreatDetector, RewardSystem, EmotionalProcessingSystem (emotional_system.py) ----
    learned_threats,      \* ThreatDetector.learned_threats: word -> weight
    emotional_history_len,      \* len(emotional_history)
    current_emotional_state,    \* EmotionalProcessingSystem.current_emotional_state
    reward_history_len,   \* len(RewardSystem.reward_history)
    expected_rewards,     \* RewardSystem.expected_rewards: pattern -> expectation
    \* ---- WorkingMemory, MetaCognitiveMonitor, ExecutiveController (executive_controller.py) ----
    phonological_loop,    \* WorkingMemory.phonological_loop: the items, oldest first
    visuospatial_sketchpad,     \* WorkingMemory.visuospatial_sketchpad
    episodic_buffer,      \* WorkingMemory.episodic_buffer
    items_processed,      \* WorkingMemory.usage_stats['total_items_processed']
    interference_events,  \* WorkingMemory.usage_stats['interference_events']
    wm_calls,             \* add_item calls made on the working memory alone
    decision_history,     \* ExecutiveController.decision_history
    strategy_performance, \* ExecutiveController.strategy_performance: strategy -> scores
    monitoring_history_len,     \* len(MetaCognitiveMonitor.monitoring_history)
    monitoring_active,    \* MetaCognitiveMonitor.monitoring_active
    meta_tasks,           \* every _continuous_monitoring task created, in creation order
    metacognitive_beliefs,      \* strategy_effectiveness and confidence_calibration
    conflict_history_len, \* len(ConflictResolver.conflict_history)
    \* ---- the mode selection applied to drawn inputs ----
    mode_input,           \* the vitals state and the emotional context drawn
    mode_output,          \* the mode _determine_processing_mode selected for them
    \* ---- concurrent process_task_outcome calls ----
    learn_calls,          \* the learn_from_outcome calls created, each pending or done
    learn_base,           \* learned_threats when the first of them was created
    \* ---- a function of the program applied to drawn inputs ----
    probe_input,          \* the arguments drawn
    probe_output          \* what the function returned for them

attnVars == <<attention_resource, active_tasks, attention_history,
              last_allocations, attn_rounds, attn_releases, attn_now>>

memVars == <<episodic_memory, semantic_memory, working_memory_len,
             memory_stats, mem_now, mem_stores>>

kernelVars == <<always_running, monitoring_task, start_time, kernel_stats, mon_tasks,
                health_history_len, emergency_log_len, last_fault, prev_fault,
                stop_waiters, stop_outcome, calls, last_call, call_kinds>>

clockVars == <<wall_clock, ticks>>

fbVars == <<fb_tasks, active_loops, fb_metrics, loop_history_len, last_pass>>

insVars == <<components, current_integration_level, learning_metrics,
             processing_history_len, goals>>

emoVars == <<learned_threats, emotional_history_len, current_emotional_state,
             reward_history_len, expected_rewards>>

wmVars == <<phonological_loop, visuospatial_sketchpad, episodic_buffer, items_processed,
            interference_events, wm_calls>>

metaVars == <<monitoring_active, meta_tasks, metacognitive_beliefs>>

execVars == <<wmVars, decision_history, strategy_performance, monitoring_history_len,
              metaVars, conflict_history_len>>

modeVars == <<mode_input, mode_output>>

learnVars == <<learn_calls, learn_base>>

probeVars == <<probe_input, probe_output>>

goalVars == <<insVars, emoVars, execVars, modeVars, learnVars, probeVars>>

vars == <<attnVars, memVars, kernelVars, clockVars, fbVars, goalVars>>

-----------------------------------------------------------------------------
(* Generic helpers *)

Min(a, b) == IF a < b THEN a ELSE b
Max(a, b) == IF a > b THEN a ELSE b

RECURSIVE Pow10(_)
Pow10(n) == IF n = 0 THEN 1 ELSE 10 * Pow10(n - 1)

RECURSIVE SumOver(_, _)
\* Sum of f[x] for x in S
SumOver(f, S) ==
    IF S = {} THEN 0
    ELSE LET x == CHOOSE y \in S : TRUE
         IN f[x] + SumOver(f, S \ {x})

EmptyMap == [x \in {} |-> 0]

-----------------------------------------------------------------------------
(***************************************************************************)
(* AttentionManager: the capacity pool and allocate / release.             *)
(*                                                                         *)
(* Amounts of attention (required_attention included) are integers in      *)
(* units of 1/AttnUnit: one round of allocation multiplies a grant by an   *)
(* efficiency with one decimal, and the task of a goal asks for an amount  *)
(* with two decimals.                                                      *)
(* urgency, importance, complexity and emotional_weight are in tenths.     *)
(* fatigue_level and efficiency are in units of 0.05 (twentieths).         *)
(***************************************************************************)

MaxRounds == 2          \* allocate_attention calls in one behaviour
MaxCandidates == 2      \* length of the candidate list of one call
MaxClockSteps == 1      \* clock advances in one behaviour
MaxGoals == 2           \* process_goal_neural calls in one behaviour

AttnUnit == Pow10(MaxRounds + MaxGoals)

TotalAttentionCapacity == 100
HistoryMaxLen == 1000
SecondsPerDay == 24 * 3600
ClockStep == SecondsPerDay \div 2

NoDeadline == -1

\* The candidate tasks of the scheduler: CognitiveTask records.
\* t1 and t2 tie on priority; t3 is complex; t4 has a deadline within a day;
\* t5 reuses the task id of t1 with another required_attention.
TaskCatalog ==
    { [task_id |-> "t1", urgency |-> 5, importance |-> 4, complexity |-> 5,
       required_attention |-> 50 * AttnUnit, emotional_weight |-> 5, deadline |-> NoDeadline],
      [task_id |-> "t2", urgency |-> 4, importance |-> 5, complexity |-> 5,
       required_attention |-> 80 * AttnUnit, emotional_weight |-> 5, deadline |-> NoDeadline],
      [task_id |-> "t3", urgency |-> 9, importance |-> 9, complexity |-> 8,
       required_attention |-> 45 * AttnUnit, emotional_weight |-> 2, deadline |-> NoDeadline],
      [task_id |-> "t4", urgency |-> 2, importance |-> 3, complexity |-> 1,
       required_attention |-> 20 * AttnUnit, emotional_weight |-> 1, deadline |-> 21600],
      [task_id |-> "t1", urgency |-> 1, importance |-> 1, complexity |-> 2,
       required_attention |-> 30 * AttnUnit, emotional_weight |-> 0, deadline |-> NoDeadline] }

TaskIds == { t.task_id : t \in TaskCatalog }

\* Candidate lists: sequences of distinct catalogue tasks, at most MaxCandidates long
CandidateLists ==
    UNION { { s \in [1..n -> TaskCatalog] : \A i, j \in 1..n : i # j => s[i] # s[j] }
            : n \in 0..MaxCandidates }

\* AttentionManager._calculate_priority, times 864000
\* (u*i in hundredths, the pressure in 1/86400, the weights in tenths)
PriorityScale == 1000 * 864

DeadlinePressure(task, now) ==
    IF task.deadline = NoDeadline THEN 0
    ELSE LET time_to_deadline == task.deadline - now
         IN IF time_to_deadline > 0
            THEN Max(0, SecondsPerDay - time_to_deadline)   \* times 86400
            ELSE 0

CalculatePriority(task, now) ==
    LET urgency_importance == task.urgency * task.importance        \* hundredths
        total_priority ==
            urgency_importance * 5 * 864
          + DeadlinePressure(task, now) * 3
          + task.emotional_weight * 30 * 864
          + task.complexity * 20 * 864
    IN Min(total_priority, PriorityScale)

\* AttentionManager._determine_attention_type with attention_performance, in tenths
AttentionEfficiency(task, active_task_count) ==
    IF active_task_count = 0 THEN 10          \* FOCUSED
    ELSE IF active_task_count = 1 THEN 9      \* SELECTIVE
    ELSE IF task.complexity > 7 THEN 8        \* SUSTAINED
    ELSE 7                                    \* DIVIDED

(* heapq on tuples (-priority, task).  A tie on the first component compares
   the tasks; CognitiveTask defines == but no ordering, so two different tasks
   of equal priority raise TypeError. *)
TupleLt(a, b) ==
    IF a.np # b.np THEN (IF a.np < b.np THEN "lt" ELSE "ge")
    ELSE IF a.task = b.task THEN "ge"
    ELSE "err"

RECURSIVE SiftDown(_, _, _, _)
SiftDown(heap, startpos, pos, newitem) ==
    IF pos > startpos
    THEN LET parentpos == pos \div 2
             c == TupleLt(newitem, heap[parentpos])
         IN IF c = "err" THEN [h |-> heap, err |-> TRUE]
            ELSE IF c = "lt"
                 THEN SiftDown([heap EXCEPT ![pos] = heap[parentpos]],
                               startpos, parentpos, newitem)
                 ELSE [h |-> [heap EXCEPT ![pos] = newitem], err |-> FALSE]
    ELSE [h |-> [heap EXCEPT ![pos] = newitem], err |-> FALSE]

RECURSIVE SiftUp(_, _, _, _)
SiftUp(heap, startpos, pos, newitem) ==
    LET endpos == Len(heap)
        childpos == 2 * pos
    IN IF childpos <= endpos
       THEN LET rightpos == childpos + 1
                c == IF rightpos <= endpos
                     THEN TupleLt(heap[childpos], heap[rightpos])
                     ELSE "lt"
            IN IF c = "err" THEN [h |-> heap, err |-> TRUE]
               ELSE LET ch == IF c = "ge" THEN rightpos ELSE childpos
                    IN SiftUp([heap EXCEPT ![pos] = heap[ch]], startpos, ch, newitem)
       ELSE SiftDown([heap EXCEPT ![pos] = newitem], startpos, pos, newitem)

HeapPush(heap, item) == SiftDown(Append(heap, item), 1, Len(heap) + 1, item)

HeapPop(heap) ==
    LET lastelt == heap[Len(heap)]
        rest == SubSeq(heap, 1, Len(heap) - 1)
    IN IF rest # <<>>
       THEN LET r == SiftUp([rest EXCEPT ![1] = lastelt], 1, 1, lastelt)
            IN [item |-> rest[1], h |-> r.h, err |-> r.err]
       ELSE [item |-> lastelt, h |-> <<>>, err |-> FALSE]

\* allocate_attention, lines 230-233: the priority heap of the candidates
RECURSIVE PushAll(_, _, _, _)
PushAll(tasks, i, heap, now) ==
    IF i > Len(tasks) THEN [h |-> heap, err |-> FALSE]
    ELSE LET r == HeapPush(heap, [np |-> 0 - CalculatePriority(tasks[i], now),
                                  task |-> tasks[i]])
         IN IF r.err THEN r ELSE PushAll(tasks, i + 1, r.h, now)

\* allocate_attention, lines 236-263: the grant loop.  st carries the locals and
\* the fields the loop writes: remaining, allocations, active, history, order.
RECURSIVE GrantLoop(_, _)
GrantLoop(heap, st) ==
    IF heap # <<>> /\ st.remaining > 0
    THEN LET p == HeapPop(heap)
         IN IF p.err THEN [st EXCEPT !.exc = TRUE]
            ELSE LET task == p.item.task
                     required == Min(task.required_attention, st.remaining)
                     efficiency == AttentionEfficiency(task, Cardinality(DOMAIN st.active))
                     effective_allocation == (required * efficiency) \div 10
                     ids == DOMAIN st.allocations \cup {task.task_id}
                     aids == DOMAIN st.active \cup {task.task_id}
                 IN GrantLoop(p.h,
                      [st EXCEPT
                         !.remaining = st.remaining - required,
                         !.allocations = [x \in ids |->
                              IF x = task.task_id THEN effective_allocation
                              ELSE st.allocations[x]],
                         !.active = [x \in aids |->
                              IF x = task.task_id THEN task ELSE st.active[x]],
                         !.history = Min(st.history + 1, HistoryMaxLen),
                         !.order = Append(st.order,
                              [task_id |-> task.task_id,
                               priority |-> 0 - p.item.np,
                               requested |-> task.required_attention,
                               remaining |-> st.remaining,
                               required |-> required,
                               granted |-> effective_allocation])])
    ELSE st

\* AttentionManager._update_attention_resource
UpdateAttentionResource(res, allocations) ==
    LET total_allocated == SumOver(allocations, DOMAIN allocations)
        cap == res.total_capacity
        fatigue == IF total_allocated * 10 > 8 * cap
                   THEN res.fatigue_level + 2
                   ELSE IF total_allocated * 10 < 3 * cap
                        THEN Max(0, res.fatigue_level - 1)
                        ELSE res.fatigue_level
    IN [res EXCEPT
          !.allocated = total_allocated,
          !.available = cap - total_allocated,
          !.fatigue_level = fatigue,
          !.efficiency = Max(2, 20 - fatigue)]

\* AttentionManager.allocate_attention as a function of the manager's state:
\* the new pool, active tasks and history, the returned allocations, the grant
\* order of the round and whether the body raised (and returned {}).
AllocateAttentionOp(res, active, history, tasks, now) ==
    LET pushed == PushAll(tasks, 1, <<>>, now)
        st0 == [remaining |-> res.available, allocations |-> EmptyMap,
                active |-> active, history |-> history, order |-> <<>>,
                exc |-> FALSE]
    IN IF pushed.err
       THEN [res |-> res, active |-> active, history |-> history,
             allocations |-> EmptyMap, order |-> <<>>, exc |-> TRUE]
       ELSE LET st == GrantLoop(pushed.h, st0)
            IN IF st.exc
               THEN [res |-> res, active |-> st.active, history |-> st.history,
                     allocations |-> EmptyMap, order |-> st.order, exc |-> TRUE]
               ELSE [res |-> UpdateAttentionResource(res, st.allocations),
                     active |-> st.active, history |-> st.history,
                     allocations |-> st.allocations, order |-> st.order,
                     exc |-> FALSE]

\* AttentionManager.release_attention: the pool after releasing an active task
\* a release that gives the amount back without taking it off the allocated sum
ReleaseAttentionOp_OneSided(res, task) ==
    [res EXCEPT !.available = res.available + task.required_attention]

ReleaseAttentionOp(res, task) ==
    LET released_amount == task.required_attention
    IN [res EXCEPT !.available = res.available + released_amount,
                   !.allocated = res.allocated - released_amount]

\* AttentionManager.__init__
InitAttention ==
    /\ attention_resource = [total_capacity |-> TotalAttentionCapacity * AttnUnit,
                             allocated |-> 0,
                             available |-> TotalAttentionCapacity * AttnUnit,
                             efficiency |-> 20,
                             fatigue_level |-> 0]
    /\ active_tasks = EmptyMap
    /\ attention_history = 0
    /\ last_allocations = [allocations |-> EmptyMap, order |-> <<>>, exc |-> FALSE]
    /\ attn_rounds = 0
    /\ attn_releases = 0
    /\ attn_now = 0

\* one allocate_attention call on a drawn candidate list
AllocateRound ==
    /\ \E tasks \in CandidateLists :
          LET r == AllocateAttentionOp(attention_resource, active_tasks,
                                       attention_history, tasks, attn_now)
          IN /\ attention_resource' = r.res
             /\ active_tasks' = r.active
             /\ attention_history' = r.history
             /\ last_allocations' = [allocations |-> r.allocations,
                                     order |-> r.order, exc |-> r.exc]
    /\ attn_rounds' = attn_rounds + 1
    /\ UNCHANGED <<attn_releases, attn_now>>
    /\ UNCHANGED <<memVars, kernelVars, clockVars, fbVars, goalVars>>

AllocateAttention == attn_rounds < MaxRounds /\ AllocateRound

\* the same call while one more round than MaxRounds is allowed
AllocateOnceMore == attn_rounds < MaxRounds + 1 /\ AllocateRound

ReleaseAttention ==
    /\ \E id \in DOMAIN active_tasks :
          /\ attention_resource' = ReleaseAttentionOp(attention_resource, active_tasks[id])
          /\ active_tasks' = [x \in DOMAIN active_tasks \ {id} |-> active_tasks[x]]
    /\ attn_releases' = attn_releases + 1
    /\ UNCHANGED <<attention_history, last_allocations, attn_rounds, attn_now>>
    /\ UNCHANGED <<memVars, kernelVars, clockVars, fbVars, goalVars>>

AdvanceClock ==
    /\ attn_now < MaxClockSteps * ClockStep
    /\ attn_now' = attn_now + ClockStep
    /\ UNCHANGED <<attention_resource, active_tasks, attention_history,
                   last_allocations, attn_rounds, attn_releases>>
    /\ UNCHANGED <<memVars, kernelVars, clockVars, fbVars, goalVars>>

NextAttn == AllocateAttention \/ ReleaseAttention \/ AdvanceClock

\* The scheduler with one more round, at one clock value
NextRounds == AllocateOnceMore \/ ReleaseAttention


-----------------------------------------------------------------------------
\* C3: after any sequence of allocate_attention and release_attention calls,
\* allocated + available equals total_capacity.
C3_Conservation ==
    attention_resource.allocated + attention_resource.available
        = attention_resource.total_capacity

C3_Witness ==
    /\ attn_rounds >= 2
    /\ attn_releases >= 1
    /\ attention_resource.allocated # 0
    /\ attention_resource.available # attention_resource.total_capacity

-----------------------------------------------------------------------------
(***************************************************************************)
(* Text.  A Python str is the sequence of its characters, so that          *)
(* lower(), split(), the substring test `p in s`, join and sorted() are    *)
(* computed and not assumed.                                               *)
(***************************************************************************)

\* The characters the model's texts use, in code point order
CharOrder ==
    <<" ", "-", "/", "H", "_", "a", "b", "c", "d", "e", "f", "g", "h", "i", "j",
      "k", "l", "m", "n", "o", "p", "q", "r", "s", "t", "u", "v", "w", "x", "y", "z">>

Ord(c) == CHOOSE i \in 1..Len(CharOrder) : CharOrder[i] = c

\* str.lower()
LowerChar(c) == IF c = "H" THEN "h" ELSE c
Lower(s) == [i \in 1..Len(s) |-> LowerChar(s[i])]

\* p in s, for two str
IsSubstring(p, s) ==
    \E k \in 0..(Len(s) - Len(p)) : SubSeq(s, k + 1, k + Len(p)) = p

\* str.split(): on runs of blanks, no empty words
RECURSIVE SplitBlank(_, _, _)
SplitBlank(s, i, cur) ==
    IF i > Len(s) THEN (IF cur = <<>> THEN <<>> ELSE <<cur>>)
    ELSE IF s[i] = " "
         THEN (IF cur = <<>> THEN <<>> ELSE <<cur>>) \o SplitBlank(s, i + 1, <<>>)
         ELSE SplitBlank(s, i + 1, Append(cur, s[i]))

\* str.split(sep): empty words are kept
RECURSIVE SplitOn(_, _, _, _)
SplitOn(s, sep, i, cur) ==
    IF i > Len(s) THEN <<cur>>
    ELSE IF s[i] = sep
         THEN <<cur>> \o SplitOn(s, sep, i + 1, <<>>)
         ELSE SplitOn(s, sep, i + 1, Append(cur, s[i]))

\* sep.join(words)
RECURSIVE Join(_, _)
Join(words, sep) ==
    IF words = <<>> THEN <<>>
    ELSE IF Len(words) = 1 THEN words[1]
    ELSE words[1] \o <<sep>> \o Join(Tail(words), sep)

\* a < b for two str
RECURSIVE StrLt(_, _)
StrLt(a, b) ==
    IF b = <<>> THEN FALSE
    ELSE IF a = <<>> THEN TRUE
    ELSE IF a[1] # b[1] THEN Ord(a[1]) < Ord(b[1])
    ELSE StrLt(Tail(a), Tail(b))

\* sorted(words)
RECURSIVE InsertSorted(_, _)
InsertSorted(w, sorted) ==
    IF sorted = <<>> THEN <<w>>
    ELSE IF StrLt(w, sorted[1]) THEN <<w>> \o sorted
    ELSE <<sorted[1]>> \o InsertSorted(w, Tail(sorted))

RECURSIVE SortedWords(_)
SortedWords(words) ==
    IF words = <<>> THEN <<>>
    ELSE InsertSorted(words[Len(words)], SortedWords(SubSeq(words, 1, Len(words) - 1)))

Prefix(s, n) == SubSeq(s, 1, Min(n, Len(s)))

SeqToSet(s) == { s[i] : i \in 1..Len(s) }

\* The task descriptions of the model
DescCreateReport == <<"c", "r", "e", "a", "t", "e", " ", "r", "e", "p", "o", "r", "t">>
DescAnalyzeCreate ==
    <<"a", "n", "a", "l", "y", "z", "e", " ", "a", "n", "d", " ", "c", "r", "e", "a", "t", "e",
      " ", "d", "a", "t", "a">>
DescRunTest == <<"r", "u", "n", " ", "t", "h", "e", " ", "t", "e", "s", "t">>
DescHelloWorld == <<"H", "e", "l", "l", "o", " ", "w", "o", "r", "l", "d">>
DescSudoRm == <<"s", "u", "d", "o", " ", "r", "m", " ", "-", "r", "f", " ", "/">>

-----------------------------------------------------------------------------
(***************************************************************************)
(* AdaptiveMemory.                                                         *)
(*                                                                         *)
(* result_quality is kept in units of 1/QUnit: merging into a record whose *)
(* reinforcement_count is rc divides by rc, and rc stays <= MaxStores + 2. *)
(* execution_time is in tenths of a second, average_execution_time in     *)
(* units of 1/TimeUnit of a second (one decimal a store).                  *)
(* emotional_impact and freshness are in thousandths, importance in 1e-4.  *)
(***************************************************************************)

MaxStores == 3          \* store_experience calls in one behaviour
MaxEpisodic == 2        \* max_episodic_memories of the model's AdaptiveMemory
NumExperienceIds == 3   \* task ids a store may use: 1..NumExperienceIds
MaxDays == 2            \* days the memory clock advances

WorkingMemoryMaxLen == 50

RECURSIVE Factorial(_)
Factorial(n) == IF n <= 1 THEN 1 ELSE n * Factorial(n - 1)

QUnit == 1000 * Factorial(MaxStores + 2)
TimeUnit == Pow10(MaxStores + 2)

\* stop_words of _extract_task_pattern (those the model's alphabet can spell)
StopWords ==
    { <<"a">>, <<"a", "n">>, <<"t", "h", "e">>, <<"i", "s">>, <<"a", "r", "e">>,
      <<"a", "n", "d">>, <<"o", "r">>, <<"b", "u", "t">>, <<"i", "n">>, <<"o", "n">>,
      <<"a", "t">>, <<"t", "o">>, <<"f", "o", "r">>, <<"o", "f">>,
      <<"w", "i", "t", "h">>, <<"b", "y">> }

\* the action-verb keywords of _extract_task_pattern
PatternKeywords ==
    { <<"c", "r", "e", "a", "t", "e">>, <<"a", "n", "a", "l", "y", "z", "e">>,
      <<"e", "x", "e", "c", "u", "t", "e">>, <<"s", "e", "a", "r", "c", "h">> }

GenericTask == <<"g", "e", "n", "e", "r", "i", "c", "_", "t", "a", "s", "k">>

\* AdaptiveMemory._extract_task_pattern
ExtractTaskPattern(task_description) ==
    LET words == SplitBlank(Lower(task_description), 1, <<>>)
        IsMeaningful(w) == w \notin StopWords /\ Len(w) > 2
        meaningful_words == SelectSeq(words, IsMeaningful)
        IsImportant(w) == \E keyword \in PatternKeywords : IsSubstring(keyword, w)
        important_words == SelectSeq(Prefix(meaningful_words, 5), IsImportant)
        pattern == IF important_words # <<>>
                   THEN Join(SortedWords(important_words), "_")
                   ELSE Join(Prefix(meaningful_words, 3), "_")
    IN IF pattern # <<>> THEN pattern ELSE GenericTask

\* AdaptiveMemory._calculate_pattern_similarity as the pair <<|A n B|, |A u B|>>
PatternSimilarity(pattern1, pattern2) ==
    LET words1 == SeqToSet(SplitOn(pattern1, "_", 1, <<>>))
        words2 == SeqToSet(SplitOn(pattern2, "_", 1, <<>>))
    IN <<Cardinality(words1 \cap words2), Cardinality(words1 \cup words2)>>

\* AdaptiveMemory._find_similar_experiences, for one stored experience
IsSimilarExperience(experience, task_pattern, task_type) ==
    IF experience.task_type = task_type
    THEN LET sim == PatternSimilarity(task_pattern, experience.task_pattern)
         IN sim[1] * 10 > 3 * sim[2]
    ELSE \E word \in SeqToSet(SplitOn(task_pattern, "_", 1, <<>>)) :
            IsSubstring(word, experience.task_pattern)

\* the positions (in dict order) of the similar experiences
RECURSIVE FindSimilarExperiences(_, _, _, _)
FindSimilarExperiences(mem, i, task_pattern, task_type) ==
    IF i > Len(mem) THEN <<>>
    ELSE (IF IsSimilarExperience(mem[i], task_pattern, task_type) THEN <<i>> ELSE <<>>)
         \o FindSimilarExperiences(mem, i + 1, task_pattern, task_type)

\* store_experience, lines 252-258: reinforcing one similar experience
Reinforce(similar_exp, result_quality) ==
    LET rc == similar_exp.reinforcement_count + 1
    IN [similar_exp EXCEPT
          !.reinforcement_count = rc,
          !.result_quality = (similar_exp.result_quality * (rc - 1) + result_quality) \div rc]

\* AdaptiveMemory._calculate_freshness_score: 1000 * exp(-days_old / 7), rounded
FreshnessTable == <<1000, 867, 751, 651, 565, 490, 424, 368, 319, 276, 240>>
FreshnessScore(experience, now) ==
    LET days_old == now - experience.timestamp
    IN FreshnessTable[Min(days_old, Len(FreshnessTable) - 1) + 1]

\* _manage_memory_capacity, lines 449-454: the importance score, times 10000
ImportanceScore(experience, now) ==
      experience.reinforcement_count * 3000
    + (IF experience.success THEN 2000 ELSE 1000)
    + experience.emotional_impact * 3
    + FreshnessScore(experience, now) * 2

\* (score, memory_id) < (score, memory_id), the order of memory_scores.sort()
ScoreLess(e1, e2, now) ==
    LET s1 == ImportanceScore(e1, now)
        s2 == ImportanceScore(e2, now)
    IN s1 < s2 \/ (s1 = s2 /\ e1.task_id < e2.task_id)

\* the ids of the first k entries of the sorted memory_scores
RECURSIVE LowestIds(_, _, _)
LowestIds(mem, k, now) ==
    IF k <= 0 \/ mem = <<>> THEN {}
    ELSE LET i == CHOOSE j \in 1..Len(mem) :
                      \A l \in 1..Len(mem) : l # j => ScoreLess(mem[j], mem[l], now)
             Without == [x \in 1..(Len(mem) - 1) |-> IF x < i THEN mem[x] ELSE mem[x + 1]]
         IN {mem[i].task_id} \cup LowestIds(Without, k - 1, now)

\* AdaptiveMemory._manage_memory_capacity: the store after the pass
\* a capacity management without memory_scores.sort(): the records that were
\* put first go
ManageMemoryCapacity_Oldest(mem, now, max_episodic_memories) ==
    IF Len(mem) > max_episodic_memories
    THEN SubSeq(mem, Len(mem) - max_episodic_memories + 1, Len(mem))
    ELSE mem

\* a capacity management that removes one record fewer than the excess
ManageMemoryCapacity_OneShort(mem, now, max_episodic_memories) ==
    IF Len(mem) > max_episodic_memories
    THEN LET gone == LowestIds(mem, Len(mem) - max_episodic_memories - 1, now)
             Stays(e) == e.task_id \notin gone
         IN SelectSeq(mem, Stays)
    ELSE mem

ManageMemoryCapacity(mem, now, max_episodic_memories) ==
    IF Len(mem) > max_episodic_memories
    THEN LET memories_to_remove == Len(mem) - max_episodic_memories
             gone == LowestIds(mem, memories_to_remove, now)
             Stays(e) == e.task_id \notin gone
         IN SelectSeq(mem, Stays)
    ELSE mem

\* AdaptiveMemory._update_semantic_memory: the aggregate of one pattern key
NewAggregate ==
    [total_attempts |-> 0, successful_attempts |-> 0,
     average_execution_time |-> 0, common_threats |-> [l \in 1..5 |-> 0]]

UpdateSemanticMemory(sem, task_pattern, task_type, experience) ==
    LET pattern_key == <<task_type, task_pattern>>
        old == IF pattern_key \in DOMAIN sem THEN sem[pattern_key] ELSE NewAggregate
        new == [total_attempts |-> old.total_attempts + 1,
                successful_attempts |-> old.successful_attempts
                                        + (IF experience.success THEN 1 ELSE 0),
                average_execution_time |->
                    (old.average_execution_time * 9
                     + experience.execution_time * (TimeUnit \div 10)) \div 10,
                common_threats |-> [old.common_threats EXCEPT
                    ![experience.threat_assessment] = @ + 1]]
    IN [k \in DOMAIN sem \cup {pattern_key} |-> IF k = pattern_key THEN new ELSE sem[k]]

\* success_rate and confidence of an aggregate are derived, lines 423 and 436:
\* success_rate = successful_attempts / total_attempts, confidence = min(attempts / 10, 1)
AggregateConfidenceTenths(agg) == Min(agg.total_attempts, 10)

\* self.episodic_memory[task_id] = experience: a dict keeps the place of a key it has
DictPut(mem, experience) ==
    IF \E i \in 1..Len(mem) : mem[i].task_id = experience.task_id
    THEN [i \in 1..Len(mem) |->
            IF mem[i].task_id = experience.task_id THEN experience ELSE mem[i]]
    ELSE Append(mem, experience)

\* AdaptiveMemory.store_experience on the episodic store: reinforce the first
\* three similar experiences, put the new one, run the capacity pass.
StoreEpisodic(mem, experience, now, max_episodic_memories) ==
    LET similar == FindSimilarExperiences(mem, 1, experience.task_pattern,
                                          experience.task_type)
        top == SeqToSet(Prefix(similar, 3))
        reinforced == [i \in 1..Len(mem) |->
                         IF i \in top THEN Reinforce(mem[i], experience.result_quality)
                         ELSE mem[i]]
    IN ManageMemoryCapacity(DictPut(reinforced, experience), now, max_episodic_memories)

\* The outcome reports of the model: what store_experience is called with
OutcomeReports ==
    { [description |-> DescCreateReport, task_type |-> "general", quality |-> 900,
       success |-> TRUE, execution_time |-> 10, emotional_weight |-> 500, threat_level |-> 1],
      [description |-> DescAnalyzeCreate, task_type |-> "general", quality |-> 100,
       success |-> FALSE, execution_time |-> 300, emotional_weight |-> 800, threat_level |-> 3],
      [description |-> DescRunTest, task_type |-> "qa", quality |-> 600,
       success |-> TRUE, execution_time |-> 10, emotional_weight |-> 0, threat_level |-> 1],
      [description |-> DescCreateReport, task_type |-> "qa", quality |-> 200,
       success |-> FALSE, execution_time |-> 300, emotional_weight |-> 300, threat_level |-> 2],
      [description |-> DescHelloWorld, task_type |-> "general", quality |-> 900,
       success |-> TRUE, execution_time |-> 10, emotional_weight |-> 200, threat_level |-> 1] }

\* AdaptiveMemory.__init__
InitMemory ==
    /\ episodic_memory = <<>>
    /\ semantic_memory = [k \in {} |-> NewAggregate]
    /\ working_memory_len = 0
    /\ memory_stats = [total_experiences |-> 0, successful_experiences |-> 0,
                       pattern_learning_count |-> 0, memory_consolidations |-> 0]
    /\ mem_now = 0
    /\ mem_stores = 0

\* AdaptiveMemory.store_experience as a function of the memory m =
\* [episodic, semantic, working_len, stats]; result_quality is in thousandths,
\* execution_time in tenths of a second.
StoreExperienceOp(m, task_id, task_description, task_type, result_quality, success, execution_time, emotional_weight, threat_level, now, max_episodic_memories) ==
    LET task_pattern == ExtractTaskPattern(task_description)
        experience ==
            [task_id |-> task_id, task_pattern |-> task_pattern,
             task_type |-> task_type,
             result_quality |-> result_quality * (QUnit \div 1000),
             success |-> success, execution_time |-> execution_time,
             emotional_impact |-> emotional_weight,
             threat_assessment |-> threat_level,
             timestamp |-> now, reinforcement_count |-> 1]
        put == DictPut(m.episodic, experience)
    IN [episodic |-> StoreEpisodic(m.episodic, experience, now, max_episodic_memories),
        working_len |-> Min(m.working_len + 1, WorkingMemoryMaxLen),
        semantic |-> UpdateSemanticMemory(m.semantic, task_pattern, task_type, experience),
        stats |-> [m.stats EXCEPT
                     !.total_experiences = @ + 1,
                     !.successful_experiences = @ + (IF success THEN 1 ELSE 0),
                     !.pattern_learning_count = @ + 1,
                     !.memory_consolidations =
                         @ + (IF Len(put) > max_episodic_memories THEN 1 ELSE 0)]]

\* the AdaptiveMemory of the model as one record
MemoryNow ==
    [episodic |-> episodic_memory, semantic |-> semantic_memory,
     working_len |-> working_memory_len, stats |-> memory_stats]

SetMemory(m) ==
    /\ episodic_memory' = m.episodic
    /\ semantic_memory' = m.semantic
    /\ working_memory_len' = m.working_len
    /\ memory_stats' = m.stats

\* a call of AdaptiveMemory.store_experience
StoreExperience ==
    /\ mem_stores < MaxStores
    /\ \E task_id \in 1..NumExperienceIds, r \in OutcomeReports :
          SetMemory(StoreExperienceOp(MemoryNow, task_id, r.description, r.task_type,
                                      r.quality, r.success, r.execution_time,
                                      r.emotional_weight, r.threat_level, mem_now, MaxEpisodic))
    /\ mem_stores' = mem_stores + 1
    /\ UNCHANGED mem_now
    /\ UNCHANGED <<attnVars, kernelVars, clockVars, fbVars, goalVars>>

\* AdaptiveMemory.__init__: the default max_episodic_memories
MaxEpisodicMemories == 1000

\* store_experience on a memory of the default capacity, each call with a
\* task id of its own; two calls more than MaxStores, so that four stored
\* experiences can be similar to a fifth
StoreWide ==
    /\ mem_stores < MaxStores + 2
    /\ \E r \in OutcomeReports :
          SetMemory(StoreExperienceOp(MemoryNow, mem_stores + 1, r.description, r.task_type,
                                      r.quality, r.success, r.execution_time,
                                      r.emotional_weight, r.threat_level, mem_now,
                                      MaxEpisodicMemories))
    /\ mem_stores' = mem_stores + 1
    /\ UNCHANGED mem_now
    /\ UNCHANGED <<attnVars, kernelVars, clockVars, fbVars, goalVars>>

AdvanceDay ==
    /\ mem_now < MaxDays
    /\ mem_now' = mem_now + 1
    /\ UNCHANGED <<episodic_memory, semantic_memory, working_memory_len,
                   memory_stats, mem_stores>>
    /\ UNCHANGED <<attnVars, kernelVars, clockVars, fbVars, goalVars>>

-----------------------------------------------------------------------------
(***************************************************************************)
(* HealthMonitor, EmergencyHandler and NeuralKernel.                       *)
(*                                                                         *)
(* asyncio runs one coroutine at a time and switches only at an await that *)
(* suspends: asyncio.sleep, and `await task` of a task that has not ended. *)
(* A step of the model is the code between two such points.  A sleeping    *)
(* task carries the time left of its sleep (timer)    ; Task.cancel() of a *)
(* task that has not ended marks it (cancelling) and the CancelledError is *)
(* thrown into it at its next step, at the await where it is suspended.    *)
(***************************************************************************)

MaxMonitorTasks == 2    \* continuous_monitoring tasks created in one behaviour
MaxCalls == 4           \* start, stop and initialize calls in one behaviour
MaxChecks == 2          \* monitoring iterations counted in stats['total_checks']
MaxTicks == 2           \* clock advances in one behaviour
MaxFeedbackTasks == 1   \* feedback-management tasks created in one behaviour

MaxHistory == 1000
NoTime == -1
\* times are in tenths of a second
MonitorSleep == 1
ErrorSleep == 10
HighCpuSleep == 10
FeedbackSleep == 10

TickSteps == {1, 10, 600, 36000}

\* vital_thresholds and the process-count thresholds of check_system_vitals
VitalNames == <<"cpu_usage", "memory_usage", "disk_usage", "process_count">>
ThresholdWarning == [cpu_usage |-> 80, memory_usage |-> 85, disk_usage |-> 85,
                     process_count |-> 500]
ThresholdCritical == [cpu_usage |-> 95, memory_usage |-> 95, disk_usage |-> 95,
                      process_count |-> 1000]

\* What psutil may report: for every vital a value below the warning threshold,
\* one at it and one at the critical threshold; or the sampling raises.
VitalReadings ==
    [cpu_usage : {50, 80, 95}, memory_usage : {50, 85, 95},
     disk_usage : {50, 85, 95}, process_count : {100, 500, 1000}]

\* The readings the running kernel is given: one for each overall status and,
\* of the critical ones, with and without the CPU whose recovery sleeps.
KernelReadings ==
    { [cpu_usage |-> 50, memory_usage |-> 50, disk_usage |-> 50, process_count |-> 100],
      [cpu_usage |-> 80, memory_usage |-> 85, disk_usage |-> 85, process_count |-> 100],
      [cpu_usage |-> 50, memory_usage |-> 95, disk_usage |-> 50, process_count |-> 1000],
      [cpu_usage |-> 95, memory_usage |-> 50, disk_usage |-> 85, process_count |-> 100],
      [cpu_usage |-> 95, memory_usage |-> 95, disk_usage |-> 95, process_count |-> 500] }

\* VitalSign.get_status
GetStatus(value, threshold_warning, threshold_critical) ==
    IF value >= threshold_critical THEN "critical"
    ELSE IF value >= threshold_warning THEN "warning"
    ELSE "healthy"

VitalStatusOf(reading, name) ==
    GetStatus(reading[name], ThresholdWarning[name], ThresholdCritical[name])

\* check_system_vitals, lines 129-140: the overall status of four vital signs
\* an overall status that warns from two warnings on
OverallStatus_TwoWarnings(reading) ==
    LET critical_count == Cardinality({ i \in 1..4 : VitalStatusOf(reading, VitalNames[i]) = "critical" })
        warning_count == Cardinality({ i \in 1..4 : VitalStatusOf(reading, VitalNames[i]) = "warning" })
    IN IF critical_count > 0 THEN "critical"
       ELSE IF warning_count >= 2 THEN "warning"
       ELSE "healthy"

OverallStatus(reading) ==
    LET critical_count == Cardinality({ i \in 1..4 : VitalStatusOf(reading, VitalNames[i]) = "critical" })
        warning_count == Cardinality({ i \in 1..4 : VitalStatusOf(reading, VitalNames[i]) = "warning" })
    IN IF critical_count > 0 THEN "critical"
       ELSE IF warning_count > 2 THEN "warning"
       ELSE "healthy"

\* HealthMonitor.check_system_vitals: the SystemHealth returned.  sampling_raises
\* says that a psutil call raised; the except clause then builds the snapshot.
CheckSystemVitals(reading, sampling_raises) ==
    IF sampling_raises
    THEN [overall_status |-> "emergency", vital_signs |-> <<>>, alerts |-> 1,
          recorded |-> FALSE]
    ELSE [overall_status |-> OverallStatus(reading),
          vital_signs |-> VitalNames,
          alerts |-> IF OverallStatus(reading) = "healthy" THEN 0 ELSE 1,
          recorded |-> TRUE]

\* a critical property that leaves the EMERGENCY status out
IsCritical_CriticalOnly(health) == health.overall_status = "critical"

\* SystemHealth.critical
IsCritical(health) == health.overall_status \in {"critical", "emergency"}

\* check_system_vitals, lines 150-152: the history after a recorded snapshot
AppendHistory(len) == IF len + 1 > MaxHistory THEN MaxHistory ELSE len + 1

\* EmergencyHandler.activate, lines 291-293: the vitals whose recovery procedure runs
CriticalVitals(health, reading) ==
    SelectSeq(health.vital_signs, LAMBDA n : VitalStatusOf(reading, n) = "critical")

\* a start without the guard of line 348
StartNeuralKernelOp_Unguarded(k, t) ==
    [k EXCEPT
        !.always_running = TRUE,
        !.start_time = t,
        !.mon_tasks = Append(k.mon_tasks,
            [pc |-> "new", cancelling |-> FALSE, timer |-> 0, pending |-> <<>>]),
        !.monitoring_task = Len(k.mon_tasks) + 1]

\* NeuralKernel.start_neural_kernel on the kernel's fields
StartNeuralKernelOp(k, t) ==
    IF k.always_running THEN k
    ELSE [k EXCEPT
            !.always_running = TRUE,
            !.start_time = t,
            !.mon_tasks = Append(k.mon_tasks,
                [pc |-> "new", cancelling |-> FALSE, timer |-> 0, pending |-> <<>>]),
            !.monitoring_task = Len(k.mon_tasks) + 1]

\* Task.cancel()
CancelTask(task) ==
    IF task.pc \in {"done", "cancelled"} THEN task
    ELSE [task EXCEPT !.cancelling = TRUE]

\* a stop that clears the flag and waits for the loop without cancelling it
StopCancelOp_NoCancel(k) ==
    [k EXCEPT !.always_running = FALSE]

\* stop_neural_kernel, lines 361-364: up to the await
StopCancelOp(k) ==
    IF k.monitoring_task # 0
    THEN [k EXCEPT !.always_running = FALSE,
                   !.mon_tasks[k.monitoring_task] = CancelTask(@)]
    ELSE [k EXCEPT !.always_running = FALSE]

\* `await self.monitoring_task` of a task that has ended
AwaitOutcome(task) ==
    IF task.pc = "cancelled" THEN "CancelledError" ELSE "result"

\* stop_neural_kernel, lines 365-368: try: await ... except asyncio.CancelledError: pass
StopAwaitHandler(outcome) ==
    IF outcome = "CancelledError" THEN "returned" ELSE "returned"

\* a loop that any exception ends
OnIterationException_Ends(task, exception) ==
    [task EXCEPT !.pc = "done", !.cancelling = FALSE, !.timer = 0, !.pending = <<>>]

\* continuous_monitoring, lines 399-403: what an exception raised in an iteration
\* does to the task.  CancelledError ends the loop; any other is logged and the
\* loop sleeps one second.
OnIterationException(task, exception) ==
    IF exception = "CancelledError"
    THEN [task EXCEPT !.pc = "done", !.cancelling = FALSE, !.timer = 0, !.pending = <<>>]
    ELSE [task EXCEPT !.pc = "error_sleep", !.timer = ErrorSleep, !.pending = <<>>]

\* the CancelledError thrown into a task at the await where it is suspended
DeliverCancel(task) ==
    IF task.pc \in {"sleep", "recovery_sleep"}
    THEN OnIterationException(task, "CancelledError")
    ELSE \* not started, or inside the except clause: nothing catches it
         [task EXCEPT !.pc = "cancelled", !.cancelling = FALSE, !.timer = 0,
                      !.pending = <<>>]

KernelFields ==
    [always_running |-> always_running, start_time |-> start_time,
     monitoring_task |-> monitoring_task, mon_tasks |-> mon_tasks]

SetKernelFields(k) ==
    /\ always_running' = k.always_running
    /\ start_time' = k.start_time
    /\ monitoring_task' = k.monitoring_task
    /\ mon_tasks' = k.mon_tasks

\* The kind of a lifecycle call: a start made while the kernel runs, and a
\* stop made when the last call was a stop that has returned or when nothing
\* was ever started, are kinds of their own.
StartKind == IF always_running THEN "start_running" ELSE "start"

StopKind ==
    IF stop_waiters = <<>> /\ last_call \in {"none", "stop", "stop_again"}
    THEN "stop_again" ELSE "stop"

\* NeuralKernel.__init__
InitKernel ==
    /\ always_running = FALSE
    /\ monitoring_task = 0
    /\ start_time = NoTime
    /\ kernel_stats = [total_checks |-> 0, emergency_activations |-> 0,
                       last_status |-> "healthy"]
    /\ mon_tasks = <<>>
    /\ health_history_len = 0
    /\ emergency_log_len = 0
    /\ last_fault = "none"
    /\ prev_fault = "none"
    /\ stop_waiters = <<>>
    /\ stop_outcome = "none"
    /\ calls = 0
    /\ last_call = "none"
    /\ call_kinds = {}

\* await kernel.start_neural_kernel()
StartNeuralKernel ==
    /\ calls < MaxCalls
    /\ always_running \/ Len(mon_tasks) < MaxMonitorTasks
    /\ SetKernelFields(StartNeuralKernelOp(KernelFields, wall_clock))
    /\ calls' = calls + 1
    /\ last_call' = StartKind
    /\ call_kinds' = call_kinds \cup {StartKind}
    /\ UNCHANGED <<kernel_stats, health_history_len, emergency_log_len, last_fault, prev_fault,
                   stop_waiters, stop_outcome>>
    /\ UNCHANGED <<attnVars, memVars, clockVars, fbVars, goalVars>>

\* await kernel.stop_neural_kernel(): the call up to its await; it returns in
\* the same step when there is no task or the task has ended already.
StopNeuralKernel ==
    /\ calls < MaxCalls
    /\ LET k == StopCancelOp(KernelFields)
           mt == k.monitoring_task
           ended == mt = 0 \/ k.mon_tasks[mt].pc \in {"done", "cancelled"}
       IN /\ SetKernelFields(k)
          /\ IF ended
             THEN /\ stop_outcome' = IF mt = 0 THEN "returned"
                                     ELSE StopAwaitHandler(AwaitOutcome(k.mon_tasks[mt]))
                  /\ UNCHANGED stop_waiters
             ELSE /\ stop_waiters' = Append(stop_waiters, mt)
                  /\ UNCHANGED stop_outcome
    /\ calls' = calls + 1
    /\ last_call' = StopKind
    /\ call_kinds' = call_kinds \cup {StopKind}
    /\ UNCHANGED <<kernel_stats, health_history_len, emergency_log_len, last_fault,
                           prev_fault>>
    /\ UNCHANGED <<attnVars, memVars, clockVars, fbVars, goalVars>>

\* a suspended stop_neural_kernel call resumes: the task it awaits has ended
StopReturns ==
    /\ \E w \in 1..Len(stop_waiters) :
          /\ mon_tasks[stop_waiters[w]].pc \in {"done", "cancelled"}
          /\ stop_outcome' = StopAwaitHandler(AwaitOutcome(mon_tasks[stop_waiters[w]]))
          /\ stop_waiters' = [x \in 1..(Len(stop_waiters) - 1) |->
                                IF x < w THEN stop_waiters[x] ELSE stop_waiters[x + 1]]
    /\ UNCHANGED <<always_running, monitoring_task, start_time, kernel_stats, mon_tasks,
                   health_history_len, emergency_log_len, last_fault, prev_fault, calls, last_call,
                   call_kinds>>
    /\ UNCHANGED <<attnVars, memVars, clockVars, fbVars, goalVars>>

\* continuous_monitoring, lines 386-397: the iteration from the emergency
\* counter on, to the sleep that ends it
FinishIteration(i, activated) ==
    /\ kernel_stats' = [kernel_stats EXCEPT
          !.emergency_activations = @ + (IF activated THEN 1 ELSE 0)]
    /\ mon_tasks' = [mon_tasks EXCEPT ![i] =
          [pc |-> "sleep", cancelling |-> FALSE, timer |-> MonitorSleep,
           pending |-> <<>>]]

\* continuous_monitoring, lines 379-380: the sample is counted
CountCheck(stats, health) ==
    [stats EXCEPT !.total_checks = @ + 1, !.last_status = health.overall_status]

\* the faults one monitoring iteration may have: the sampling raises; a recovery
\* procedure raises (caught in _execute_recovery_procedure); the resource check
\* or the priority adjustment raises (caught where raised); activate raises
\* outside its recovery procedures (caught by the loop).
IterationFaults == {"none", "sampling", "mitigation", "resource", "adjust", "activate"}

\* one step of a continuous_monitoring task that is not being cancelled, from
\* the top of the loop
MonitorIterate(i) ==
    /\ mon_tasks[i].pc \in {"new", "sleep", "error_sleep"}
    /\ ~mon_tasks[i].cancelling
    /\ mon_tasks[i].timer = 0
    /\ IF ~always_running
       THEN /\ mon_tasks' = [mon_tasks EXCEPT ![i].pc = "done"]
            /\ UNCHANGED <<kernel_stats, health_history_len, emergency_log_len, last_fault,
                           prev_fault>>
       ELSE /\ kernel_stats.total_checks < MaxChecks
            /\ \E reading \in KernelReadings, fault \in IterationFaults :
                 LET health == CheckSystemVitals(reading, fault = "sampling")
                     todo == IF fault = "sampling" THEN <<>>
                             ELSE CriticalVitals(health, reading)
                     sleeps == fault # "mitigation" /\ todo # <<>>
                               /\ todo[1] = "cpu_usage"
                     counted == CountCheck(kernel_stats, health)
                 IN /\ fault = "activate" => IsCritical(health)
                    /\ last_fault' = fault
                    /\ prev_fault' = last_fault
                    /\ health_history_len' = IF health.recorded
                                             THEN AppendHistory(health_history_len)
                                             ELSE health_history_len
                    /\ IF ~IsCritical(health)
                       THEN /\ kernel_stats' = counted
                            /\ mon_tasks' = [mon_tasks EXCEPT ![i] =
                                   [pc |-> "sleep", cancelling |-> FALSE,
                                    timer |-> MonitorSleep, pending |-> <<>>]]
                            /\ UNCHANGED emergency_log_len
                       ELSE IF fault = "activate"
                       THEN /\ mon_tasks' = [mon_tasks EXCEPT ![i] =
                                   OnIterationException(@, "Exception")]
                            /\ kernel_stats' = counted
                            /\ UNCHANGED emergency_log_len
                       ELSE IF sleeps
                       THEN \* _handle_high_cpu: await asyncio.sleep(1)
                            /\ emergency_log_len' = emergency_log_len + 1
                            /\ mon_tasks' = [mon_tasks EXCEPT ![i] =
                                   [pc |-> "recovery_sleep", cancelling |-> FALSE,
                                    timer |-> HighCpuSleep, pending |-> Tail(todo)]]
                            /\ kernel_stats' = counted
                       ELSE /\ emergency_log_len' = emergency_log_len + 1
                            /\ kernel_stats' = [counted EXCEPT
                                   !.emergency_activations = @ + 1]
                            /\ mon_tasks' = [mon_tasks EXCEPT ![i] =
                                   [pc |-> "sleep", cancelling |-> FALSE,
                                    timer |-> MonitorSleep, pending |-> <<>>]]
    /\ UNCHANGED <<always_running, monitoring_task, start_time, stop_waiters,
                   stop_outcome, calls, last_call, call_kinds>>
    /\ UNCHANGED <<attnVars, memVars, clockVars, fbVars, goalVars>>

\* the task resumes in _handle_high_cpu and ends its iteration
MonitorResume(i) ==
    /\ mon_tasks[i].pc = "recovery_sleep"
    /\ ~mon_tasks[i].cancelling
    /\ mon_tasks[i].timer = 0
    /\ FinishIteration(i, TRUE)
    /\ UNCHANGED <<always_running, monitoring_task, start_time, health_history_len,
                   emergency_log_len, last_fault, prev_fault, stop_waiters, stop_outcome, calls,
                   last_call, call_kinds>>
    /\ UNCHANGED <<attnVars, memVars, clockVars, fbVars, goalVars>>

\* the task is resumed with the CancelledError of a cancel()
MonitorCancelled(i) ==
    /\ mon_tasks[i].pc \notin {"done", "cancelled"}
    /\ mon_tasks[i].cancelling
    /\ mon_tasks' = [mon_tasks EXCEPT ![i] = DeliverCancel(@)]
    /\ UNCHANGED <<always_running, monitoring_task, start_time, kernel_stats,
                   health_history_len, emergency_log_len, last_fault, prev_fault, stop_waiters,
                   stop_outcome, calls, last_call, call_kinds>>
    /\ UNCHANGED <<attnVars, memVars, clockVars, fbVars, goalVars>>

\* the event loop runs the i-th monitoring task
MonitorTaskStep(i) ==
    /\ i \in 1..Len(mon_tasks)
    /\ (MonitorIterate(i) \/ MonitorResume(i) \/ MonitorCancelled(i))

MonitorStep == \E i \in 1..MaxMonitorTasks : MonitorTaskStep(i)

\* the timers of the sleeping tasks after dt tenths of a second
ElapseTimers(tasks, dt) ==
    [i \in 1..Len(tasks) |-> [tasks[i] EXCEPT !.timer = Max(0, @ - dt)]]

\* The sleeps of the monitoring tasks run down.  The monitoring loop does not
\* read the clock, so this action leaves it alone and needs no bound.
TimePass ==
    /\ \E i \in 1..Len(mon_tasks) : mon_tasks[i].timer > 0
    /\ \E dt \in {MonitorSleep, ErrorSleep} : mon_tasks' = ElapseTimers(mon_tasks, dt)
    /\ UNCHANGED <<always_running, monitoring_task, start_time, kernel_stats,
                   health_history_len, emergency_log_len, last_fault, prev_fault, stop_waiters,
                   stop_outcome, calls, last_call, call_kinds>>
    /\ UNCHANGED <<attnVars, memVars, clockVars, fbVars, goalVars>>

NextKernel ==
    \/ StartNeuralKernel
    \/ StopNeuralKernel
    \/ StopReturns
    \/ MonitorStep
    \/ TimePass

-----------------------------------------------------------------------------
(***************************************************************************)
(* FeedbackLoopManager and the task                                        *)
(* IntegratedNeuralSystem._continuous_feedback_management.                 *)
(* update_interval is in units of 1/IntervalScale of a tenth of a second:   *)
(* a completed goal may                                                    *)
(* multiply it by 1.1 or 0.9, one more decimal each time.                  *)
(***************************************************************************)

MaxCycles == 4          \* feedback cycles counted in total_feedback_cycles
MaxFaultyGoals == 1     \* process_goal_neural calls in which a stage raises

IntervalScale == Pow10(MaxGoals + 1)

LoopIds == <<"neural_to_emotional", "emotional_to_executive", "integrated_learning">>

\* FeedbackLoopManager._initialize_standard_loops
StandardLoops ==
    [neural_to_emotional |->
        [loop_type |-> "immediate", update_interval |-> 1 * IntervalScale,
         last_update |-> 0, active |-> TRUE],
     emotional_to_executive |->
        [loop_type |-> "tactical", update_interval |-> 600 * IntervalScale,
         last_update |-> 0, active |-> TRUE],
     integrated_learning |->
        [loop_type |-> "strategic", update_interval |-> 36000 * IntervalScale,
         last_update |-> 0, active |-> TRUE]]

\* a test that wants more than the interval to have passed
LoopIsDue_Strict(loop, current_time) ==
    /\ loop.active
    /\ (current_time - loop.last_update) * IntervalScale > loop.update_interval

\* manage_feedback_loops, lines 137-142: whether a loop is executed in a pass
LoopIsDue(loop, current_time) ==
    /\ loop.active
    /\ (current_time - loop.last_update) * IntervalScale >= loop.update_interval

\* an execution whose exception reaches manage_feedback_loops: the for loop
\* ends at the first loop that raises
ExecuteFeedbackLoop_Propagates(due, failing) ==
    { LoopIds[i] : i \in { k \in 1..Len(LoopIds) :
                             /\ LoopIds[k] \in due
                             /\ \A h \in 1..k : LoopIds[h] \notin failing } }

\* _execute_feedback_loop in the for loop of manage_feedback_loops: the due
\* loops whose turn of the for loop runs to its end.  The except clause of
\* _execute_feedback_loop keeps what the loops in failing raise.
ExecuteFeedbackLoop(due, failing) == due

\* manage_feedback_loops: the loops after a pass made at current_time in which
\* the turns of the loops in completed ran to their end
LoopsAfterPass(loops, completed, current_time) ==
    [id \in DOMAIN loops |->
        IF id \in completed
        THEN [loops[id] EXCEPT !.last_update = current_time]
        ELSE loops[id]]

DueLoops(loops, current_time) ==
    { id \in DOMAIN loops : LoopIsDue(loops[id], current_time) }

\* FeedbackLoopManager.__init__
InitFeedback ==
    /\ fb_tasks = <<>>
    /\ active_loops = StandardLoops
    /\ fb_metrics = [total_feedback_cycles |-> 0, successful_adaptations |-> 0,
                     system_improvements |-> 0]
    /\ loop_history_len = 0
    /\ last_pass = [executed |-> {}, failed |-> {}, at |-> NoTime]
    /\ wall_clock = 0
    /\ ticks = 0

\* the loops a pass may find: the standard loops, each one active or
\* deactivated through the active field of FeedbackLoop
LoopConfigs ==
    { [id \in DOMAIN StandardLoops |-> [StandardLoops[id] EXCEPT !.active = a[id]]] :
        a \in [DOMAIN StandardLoops -> BOOLEAN] }

\* a FeedbackLoopManager whose loops are one of LoopConfigs
InitLoops ==
    /\ fb_tasks = <<>>
    /\ active_loops \in LoopConfigs
    /\ fb_metrics = [total_feedback_cycles |-> 0, successful_adaptations |-> 0,
                     system_improvements |-> 0]
    /\ loop_history_len = 0
    /\ last_pass = [executed |-> {}, failed |-> {}, at |-> NoTime]
    /\ wall_clock = 0
    /\ ticks = 0

\* IntegratedNeuralSystem.__init__: no component is set
NoComponents ==
    [neural_kernel |-> FALSE, emotional_system |-> FALSE, executive_controller |-> FALSE]

\* what initialize_neural_systems may be given: every component, or None for one
ComponentChoices ==
    { c \in [neural_kernel : BOOLEAN, emotional_system : BOOLEAN,
             executive_controller : BOOLEAN] :
        Cardinality({ k \in DOMAIN c : ~c[k] }) <= 1 }

\* IntegratedNeuralSystem.initialize_neural_systems: the components are set
\* and the feedback task is created.  has_systems says that a kernel and an emotional system are given,
\* without which the immediate loop returns before it samples.
InitializeNeuralSystems ==
    /\ Len(fb_tasks) < MaxFeedbackTasks
    /\ calls < MaxCalls
    /\ \E given \in ComponentChoices :
          /\ components' = given
          /\ fb_tasks' = Append(fb_tasks,
                [pc |-> "new", timer |-> 0,
                 has_systems |-> given.neural_kernel /\ given.emotional_system])
    /\ calls' = calls + 1
    /\ last_call' = "initialize"
    /\ call_kinds' = call_kinds \cup {"initialize"}
    /\ UNCHANGED <<active_loops, fb_metrics, loop_history_len, last_pass>>
    /\ UNCHANGED <<always_running, monitoring_task, start_time, kernel_stats, mon_tasks,
                   health_history_len, emergency_log_len, last_fault, prev_fault,
                   stop_waiters, stop_outcome>>
    /\ UNCHANGED <<current_integration_level, learning_metrics, processing_history_len,
                   goals>>
    /\ UNCHANGED <<attnVars, memVars, clockVars, emoVars, execVars, modeVars, learnVars,
                   probeVars>>

\* one turn of the while True of _continuous_feedback_management:
\* manage_feedback_loops, then await asyncio.sleep(1.0).  failing are the
\* loops whose feedback function raises in this pass.  The immediate loop
\* samples the vitals through get_comprehensive_status.
FeedbackPass(j) ==
    /\ fb_tasks[j].timer = 0
    /\ \E failing \in SUBSET DOMAIN active_loops, reading \in KernelReadings,
          sampling_raises \in BOOLEAN :
          LET due == DueLoops(active_loops, wall_clock)
              health == CheckSystemVitals(reading, sampling_raises)
              completed == ExecuteFeedbackLoop(due, failing)
              sampled == "neural_to_emotional" \in completed \ failing
                         /\ fb_tasks[j].has_systems
          IN /\ failing \subseteq due
             /\ fb_metrics.total_feedback_cycles + Cardinality(due) <= MaxCycles
             /\ active_loops' = LoopsAfterPass(active_loops, completed, wall_clock)
             /\ fb_metrics' = [fb_metrics EXCEPT
                    !.total_feedback_cycles = @ + Cardinality(completed)]
             /\ loop_history_len' =
                    Min(loop_history_len + Cardinality(completed \ failing), MaxHistory)
             /\ last_pass' = [executed |-> completed, failed |-> failing,
                              at |-> wall_clock]
             /\ health_history_len' =
                    IF sampled /\ health.recorded
                    THEN AppendHistory(health_history_len)
                    ELSE health_history_len
    /\ fb_tasks' = [fb_tasks EXCEPT ![j].pc = "sleep", ![j].timer = FeedbackSleep]
    /\ UNCHANGED <<always_running, monitoring_task, start_time, kernel_stats, mon_tasks,
                   emergency_log_len, last_fault, prev_fault, stop_waiters, stop_outcome, calls,
                   last_call, call_kinds>>
    /\ UNCHANGED <<attnVars, memVars, clockVars, goalVars>>

FeedbackStep == \E j \in 1..Len(fb_tasks) : FeedbackPass(j)

\* time passes
Tick ==
    /\ ticks < MaxTicks
    /\ \E dt \in TickSteps :
          /\ wall_clock' = wall_clock + dt
          /\ mon_tasks' = ElapseTimers(mon_tasks, dt)
          /\ fb_tasks' = [j \in 1..Len(fb_tasks) |->
                            [fb_tasks[j] EXCEPT !.timer = Max(0, @ - dt)]]
          /\ meta_tasks' = ElapseTimers(meta_tasks, dt)
    /\ ticks' = ticks + 1
    /\ UNCHANGED <<always_running, monitoring_task, start_time, kernel_stats,
                   health_history_len, emergency_log_len, last_fault, prev_fault, stop_waiters,
                   stop_outcome, calls, last_call, call_kinds>>
    /\ UNCHANGED <<active_loops, fb_metrics, loop_history_len, last_pass>>
    /\ UNCHANGED <<wmVars, decision_history, strategy_performance, monitoring_history_len,
                   monitoring_active, metacognitive_beliefs, conflict_history_len>>
    /\ UNCHANGED <<attnVars, memVars, insVars, emoVars, modeVars, learnVars, probeVars>>

\* the monitoring tasks that stop_neural_kernel cancelled end
MonitorCancelStep == \E i \in 1..Len(mon_tasks) : MonitorCancelled(i)

NextFeedback ==
    \/ InitializeNeuralSystems
    \/ FeedbackStep
    \/ Tick
    \/ StartNeuralKernel
    \/ StopNeuralKernel
    \/ StopReturns
    \/ MonitorCancelStep

-----------------------------------------------------------------------------
(***************************************************************************)
(* ThreatDetector, RewardSystem and EmotionalProcessingSystem.             *)
(*                                                                         *)
(* A threat score and a learned weight are integers in units of            *)
(* 1/ScoreUnit (a learned weight is multiplied by 0.95 at a success).      *)
(* emotional_weight, confidence, valence, arousal, a quality and a reward  *)
(* are in thousandths; a quotient that has more decimals is cut to them.   *)
(***************************************************************************)

ScoreUnit == 1000 * 1000
Milli == Pow10(3)

\* ThreatLevel
SAFE == 1
LOW == 2
MODERATE == 3
HIGH == 4
CRITICAL == 5

ThreatCategories ==
    <<"security_threats", "resource_intensive", "complexity_markers",
      "destructive_operations">>

\* ThreatDetector.__init__: threat_patterns
ThreatPatterns ==
    [security_threats |->
        { <<"d", "e", "l", "e", "t", "e">>, <<"r", "e", "m", "o", "v", "e">>,
          <<"r", "m", " ">>, <<"f", "o", "r", "m", "a", "t">>, <<"s", "u", "d", "o">>,
          <<"a", "d", "m", "i", "n">>, <<"p", "a", "s", "s", "w", "o", "r", "d">>,
          <<"p", "r", "i", "v", "a", "t", "e">>, <<"s", "e", "c", "r", "e", "t">>,
          <<"t", "o", "k", "e", "n">>, <<"k", "e", "y">>,
          <<"s", "y", "s", "t", "e", "m">>, <<"r", "o", "o", "t">>,
          <<"k", "e", "r", "n", "e", "l">>, <<"r", "e", "g", "i", "s", "t", "r", "y">> },
     resource_intensive |->
        { <<"i", "n", "f", "i", "n", "i", "t", "e">>, <<"l", "o", "o", "p">>,
          <<"r", "e", "c", "u", "r", "s", "i", "v", "e">>, <<"h", "e", "a", "v", "y">>,
          <<"l", "a", "r", "g", "e">>, <<"m", "a", "s", "s", "i", "v", "e">>,
          <<"b", "u", "l", "k">>, <<"b", "a", "t", "c", "h">>,
          <<"p", "a", "r", "a", "l", "l", "e", "l">> },
     complexity_markers |->
        { <<"c", "o", "m", "p", "l", "e", "x">>,
          <<"d", "i", "f", "f", "i", "c", "u", "l", "t">>,
          <<"a", "d", "v", "a", "n", "c", "e", "d">>, <<"e", "x", "p", "e", "r", "t">>,
          <<"s", "o", "p", "h", "i", "s", "t", "i", "c", "a", "t", "e", "d">>,
          <<"i", "n", "t", "r", "i", "c", "a", "t", "e">>,
          <<"c", "o", "m", "p", "r", "e", "h", "e", "n", "s", "i", "v", "e">> },
     destructive_operations |->
        { <<"o", "v", "e", "r", "w", "r", "i", "t", "e">>,
          <<"r", "e", "p", "l", "a", "c", "e">>, <<"d", "e", "s", "t", "r", "o", "y">>,
          <<"c", "l", "e", "a", "r">>, <<"r", "e", "s", "e", "t">>,
          <<"w", "i", "p", "e">>, <<"p", "u", "r", "g", "e">>,
          <<"c", "l", "e", "a", "n", "u", "p">> }]

\* ThreatDetector.__init__: threat_weights
ThreatWeights ==
    [security_threats |-> 5, resource_intensive |-> 3, complexity_markers |-> 2,
     destructive_operations |-> 4]

\* ThreatDetector._get_type_risk_multiplier, in tenths
TypeRiskMultiplier(task_type) ==
    CASE task_type = "code" -> 20
      [] task_type = "system" -> 30
      [] task_type = "admin" -> 40
      [] task_type = "analysis" -> 10
      [] task_type = "creative" -> 5
      [] task_type = "qa" -> 3
      [] task_type = "web_search" -> 8
      [] OTHER -> 10

\* ThreatDetector._calculate_threat_level
CalculateThreatLevel(score) ==
    IF score <= 1 * ScoreUnit THEN SAFE
    ELSE IF score <= 3 * ScoreUnit THEN LOW
    ELSE IF score <= 6 * ScoreUnit THEN MODERATE
    ELSE IF score <= 10 * ScoreUnit THEN HIGH
    ELSE CRITICAL

\* assess_threat with `-=` for `+=` in line 122: a learned weight lowers the
\* score of the descriptions that hold its word
AssessThreat_LearnedSubtracted(task_description, task_type, learned, raises) ==
    IF raises THEN [threat_level |-> MODERATE, threat_score |-> 3 * ScoreUnit]
    ELSE
    LET description_lower == Lower(task_description)
        Matches(category) ==
            { pattern \in ThreatPatterns[category] : IsSubstring(pattern, description_lower) }
        category_score == [category \in SeqToSet(ThreatCategories) |->
            Cardinality(Matches(category)) * ThreatWeights[category] * ScoreUnit]
        found == { pattern \in DOMAIN learned : IsSubstring(pattern, description_lower) }
        pattern_score == SumOver(category_score, SeqToSet(ThreatCategories))
                         - SumOver(learned, found)
        length_factor == Min((Len(task_description) * ScoreUnit) \div 100, 2 * ScoreUnit)
        threat_score == (pattern_score * TypeRiskMultiplier(task_type)) \div 10
                        + length_factor
    IN [threat_level |-> CalculateThreatLevel(threat_score), threat_score |-> threat_score]

\* ThreatDetector.assess_threat: <<threat_level, threat_score>>.  raises says
\* that the body raised; the except clause answers MODERATE with score 3.0.
AssessThreat(task_description, task_type, learned, raises) ==
    IF raises THEN [threat_level |-> MODERATE, threat_score |-> 3 * ScoreUnit]
    ELSE
    LET description_lower == Lower(task_description)
        Matches(category) ==
            { pattern \in ThreatPatterns[category] : IsSubstring(pattern, description_lower) }
        category_score == [category \in SeqToSet(ThreatCategories) |->
            Cardinality(Matches(category)) * ThreatWeights[category] * ScoreUnit]
        found == { pattern \in DOMAIN learned : IsSubstring(pattern, description_lower) }
        pattern_score == SumOver(category_score, SeqToSet(ThreatCategories))
                         + SumOver(learned, found)
        length_factor == Min((Len(task_description) * ScoreUnit) \div 100, 2 * ScoreUnit)
        threat_score == (pattern_score * TypeRiskMultiplier(task_type)) \div 10
                        + length_factor
    IN [threat_level |-> CalculateThreatLevel(threat_score), threat_score |-> threat_score]

\* learn_from_outcome with `=` for `+=` in line 189: the weight a word had is
\* dropped
RECURSIVE LearnFailure_Overwrite(_, _, _)
LearnFailure_Overwrite(learned, words, impact_severity) ==
    IF words = <<>> THEN learned
    ELSE LET word == Head(words)
             new == (impact_severity * (ScoreUnit \div Milli)) \div 2
             next == IF Len(word) > 3
                     THEN [w \in DOMAIN learned \cup {word} |->
                              IF w = word THEN new ELSE learned[w]]
                     ELSE learned
         IN LearnFailure_Overwrite(next, Tail(words), impact_severity)

\* learn_from_outcome, lines 185-189: a failure adds impact_severity * 0.5 to
\* the weight of every word longer than three characters
RECURSIVE LearnFailure(_, _, _)
LearnFailure(learned, words, impact_severity) ==
    IF words = <<>> THEN learned
    ELSE LET word == Head(words)
             old == IF word \in DOMAIN learned THEN learned[word] ELSE 0
             new == old + (impact_severity * (ScoreUnit \div Milli)) \div 2
             next == IF Len(word) > 3
                     THEN [w \in DOMAIN learned \cup {word} |->
                              IF w = word THEN new ELSE learned[w]]
                     ELSE learned
         IN LearnFailure(next, Tail(words), impact_severity)

\* learn_from_outcome without the test of line 195: the defaultdict makes an
\* entry of weight 0.0 for a word it does not know
RECURSIVE LearnSuccess_AddsTokens(_, _)
LearnSuccess_AddsTokens(learned, words) ==
    IF words = <<>> THEN learned
    ELSE LET word == Head(words)
             old == IF word \in DOMAIN learned THEN learned[word] ELSE 0
             next == [w \in DOMAIN learned \cup {word} |->
                         IF w = word THEN (old * 95) \div 100 ELSE learned[w]]
         IN LearnSuccess_AddsTokens(next, Tail(words))

\* learn_from_outcome, lines 192-196: a success takes 5% off the known words
RECURSIVE LearnSuccess(_, _)
LearnSuccess(learned, words) ==
    IF words = <<>> THEN learned
    ELSE LET word == Head(words)
             next == IF word \in DOMAIN learned
                     THEN [learned EXCEPT ![word] = (@ * 95) \div 100]
                     ELSE learned
         IN LearnSuccess(next, Tail(words))

\* learn_from_outcome without lines 198-200: no upper limit on the weights
LearnFromOutcome_NoCap(learned, task_description, was_successful, impact_severity) ==
    LET words == SplitBlank(Lower(task_description), 1, <<>>)
    IN IF ~was_successful /\ impact_severity > 500
       THEN LearnFailure(learned, words, impact_severity)
       ELSE IF was_successful THEN LearnSuccess(learned, words)
       ELSE learned

\* ThreatDetector.learn_from_outcome: the learned weights after an outcome
LearnFromOutcome(learned, task_description, was_successful, impact_severity) ==
    LET words == SplitBlank(Lower(task_description), 1, <<>>)
        updated == IF ~was_successful /\ impact_severity > 500
                   THEN LearnFailure(learned, words, impact_severity)
                   ELSE IF was_successful THEN LearnSuccess(learned, words)
                   ELSE learned
    IN [w \in DOMAIN updated |-> Min(updated[w], 5 * ScoreUnit)]

\* EmotionalState
EmotionalStates ==
    {"neutral", "positive", "negative", "anxious", "confident", "frustrated"}

\* AdaptiveMemory.recall_similar_experiences.  The cut to `limit` keeps the
\* best scored; the store of the model holds fewer than limit = 5
\* experiences, so every similar one is returned.
RecallSimilarExperiences(mem, task_description, task_type, limit) ==
    LET task_pattern == ExtractTaskPattern(task_description)
        similar == FindSimilarExperiences(mem, 1, task_pattern, task_type)
    IN [i \in 1..Min(limit, Len(similar)) |-> mem[similar[i]]]

SuccessCount(past_experiences) ==
    Cardinality({ i \in 1..Len(past_experiences) : past_experiences[i].success })

\* EmotionalProcessingSystem._calculate_emotional_significance
CalculateEmotionalSignificance(threat_score, past_experiences) ==
    LET n == Len(past_experiences)
        threat_weight == (threat_score * 4) \div 100       \* threat_score / 10 * 0.4
        \* abs(emotional_impact), times 1.5 after a failure, in 1/ScoreUnit
        exp_weight == [i \in 1..n |->
            past_experiences[i].emotional_impact
                * (IF past_experiences[i].success THEN 1000 ELSE 1500)]
        avg_experience_weight ==
            IF n > 0 THEN SumOver(exp_weight, 1..n) \div n ELSE ScoreUnit \div 2
        emotional_significance == threat_weight + (avg_experience_weight * 3) \div 10
    IN Min(Max(emotional_significance \div (ScoreUnit \div Milli), 0), Milli)

\* EmotionalProcessingSystem._calculate_confidence
CalculateConfidence(past_experiences) ==
    LET n == Len(past_experiences)
    IN IF n = 0 THEN 0
       ELSE LET base_confidence == Min(n * 100, 800)
                success_confidence == (SuccessCount(past_experiences) * 200) \div n
            IN Min(base_confidence + success_confidence, Milli)

\* EmotionalProcessingSystem._calculate_emotional_dimensions
CalculateEmotionalDimensions(threat_level, past_experiences, emotional_weight) ==
    LET n == Len(past_experiences)
        from_memory == IF n > 0
                       THEN (SuccessCount(past_experiences) * 2 * Milli) \div n - Milli
                       ELSE 0
        threat_penalty == (threat_level - 1) * 200
        valence == from_memory - threat_penalty
        arousal == emotional_weight + (threat_level - 1) * 150
    IN [valence |-> Max(Min(valence, Milli), 0 - Milli),
        arousal |-> Max(Min(arousal, Milli), 0)]

\* EmotionalProcessingSystem._determine_emotional_state
DetermineEmotionalState(valence, arousal, threat_level) ==
    IF threat_level = CRITICAL THEN "anxious"
    ELSE IF valence > 300 THEN (IF arousal > 600 THEN "confident" ELSE "positive")
    ELSE IF valence < -300 THEN (IF arousal > 600 THEN "frustrated" ELSE "negative")
    ELSE IF arousal > 700 THEN "anxious"
    ELSE "neutral"

\* the EmotionalContext of evaluate_task_emotion's except clause
EvaluationErrorContext ==
    [threat_level |-> MODERATE, emotional_weight |-> 500, confidence |-> 0,
     valence |-> 0, arousal |-> 500, state |-> "neutral"]

\* EmotionalProcessingSystem.evaluate_task_emotion: the context returned and
\* whether it was recorded in emotional_history.  raises says that the body
\* raised before the context was built.
EvaluateTaskEmotion(task_description, task_type, learned, mem, raises) ==
    IF raises THEN [context |-> EvaluationErrorContext, recorded |-> FALSE]
    ELSE
    LET threat == AssessThreat(task_description, task_type, learned, FALSE)
        past_experiences == RecallSimilarExperiences(mem, task_description, task_type, 5)
        emotional_weight ==
            CalculateEmotionalSignificance(threat.threat_score, past_experiences)
        confidence == CalculateConfidence(past_experiences)
        dims == CalculateEmotionalDimensions(threat.threat_level, past_experiences,
                                             emotional_weight)
    IN [context |->
            [threat_level |-> threat.threat_level,
             emotional_weight |-> emotional_weight,
             confidence |-> confidence,
             valence |-> dims.valence,
             arousal |-> dims.arousal,
             state |-> DetermineEmotionalState(dims.valence, dims.arousal,
                                               threat.threat_level)],
        recorded |-> TRUE]

\* a task result without the key 'quality'
NoQuality == -1

\* RewardSystem.calculate_reward, in thousandths.  execution_time is in tenths
\* of a second.
CalculateReward(task_result, emotional_context) ==
    LET success_reward == IF task_result.success THEN 1000 ELSE 0
        speed_reward == IF task_result.execution_time < 100
                        THEN (500 * (100 - task_result.execution_time)) \div 100
                        ELSE 0
        quality == IF task_result.quality = NoQuality THEN 500 ELSE task_result.quality
        quality_reward == quality * 2
        confidence_bonus == IF emotional_context.state = "confident" THEN 200 ELSE 0
        threat_term == IF emotional_context.threat_level = CRITICAL THEN -500
                       ELSE IF emotional_context.threat_level = SAFE THEN 100
                       ELSE 0
        total_reward == success_reward + speed_reward + quality_reward
                        + confidence_bonus + threat_term
    IN Max(total_reward, 0)

\* expected rewards are in units of 1/RewardUnit: an update divides by ten
RewardUnit == Milli * Pow10(MaxGoals)

\* RewardSystem.update_expectations
UpdateExpectations(expected, task_pattern, actual_reward) ==
    LET current_expectation ==
            IF task_pattern \in DOMAIN expected THEN expected[task_pattern] ELSE 0
        prediction_error == actual_reward * (RewardUnit \div Milli) - current_expectation
        new == current_expectation + prediction_error \div 10
    IN [p \in DOMAIN expected \cup {task_pattern} |->
            IF p = task_pattern THEN new ELSE expected[p]]

-----------------------------------------------------------------------------
(***************************************************************************)
(* WorkingMemory, ConflictResolver, MetaCognitiveMonitor and               *)
(* ExecutiveController.                                                    *)
(*                                                                         *)
(* The tasks here are the CognitiveTask records _generate_task_options     *)
(* builds: urgency, importance, complexity and emotional_weight in         *)
(* thousandths.  A confidence is in thousandths.                           *)
(***************************************************************************)

WorkingMemoryCapacity == 7
DecisionHistoryMaxLen == 1000
ConflictHistoryMaxLen == 500

NoTask == "none"

MemoryTypes == {"phonological", "visuospatial", "episodic"}

\* a buffer that is a plain list: nothing is dropped
DequeAppend_Unbounded(buffer, item) == Append(buffer, item)

\* deque(maxlen=capacity).append: a full deque drops its leftmost item
DequeAppend(buffer, item) ==
    IF Len(buffer) >= WorkingMemoryCapacity
    THEN Append(Tail(buffer), item)
    ELSE Append(buffer, item)

\* WorkingMemory.add_item and _handle_capacity_overflow.  wm holds the three
\* buffers and the usage statistics; any memory_type other than phonological
\* and visuospatial is the episodic buffer.
AddItem(wm, item, memory_type) ==
    LET buffer == IF memory_type \in {"phonological", "visuospatial"}
                  THEN memory_type ELSE "episodic"
    IN [wm EXCEPT ![buffer] = DequeAppend(@, item),
                  !.total_items_processed = @ + 1,
                  !.interference_events =
                      @ + (IF Len(wm[buffer]) >= WorkingMemoryCapacity THEN 1 ELSE 0)]

\* WorkingMemory.get_cognitive_load, in thousandths
GetCognitiveLoad(wm) ==
    LET total_items == Len(wm.phonological) + Len(wm.visuospatial) + Len(wm.episodic)
    IN Min((total_items * Milli) \div (WorkingMemoryCapacity * 3), Milli)

WorkingMemoryNow ==
    [phonological |-> phonological_loop, visuospatial |-> visuospatial_sketchpad,
     episodic |-> episodic_buffer, total_items_processed |-> items_processed,
     interference_events |-> interference_events]

SetWorkingMemory(wm) ==
    /\ phonological_loop' = wm.phonological
    /\ visuospatial_sketchpad' = wm.visuospatial
    /\ episodic_buffer' = wm.episodic
    /\ items_processed' = wm.total_items_processed
    /\ interference_events' = wm.interference_events

\* WorkingMemory.__init__
EmptyWorkingMemory ==
    [phonological |-> <<>>, visuospatial |-> <<>>, episodic |-> <<>>,
     total_items_processed |-> 0, interference_events |-> 0]

InitWorkingMemory ==
    /\ phonological_loop = <<>>
    /\ visuospatial_sketchpad = <<>>
    /\ episodic_buffer = <<>>
    /\ items_processed = 0
    /\ interference_events = 0
    /\ wm_calls = 0

MaxAdds == 3            \* add_item calls made on the working memory alone

\* n add_item calls on one buffer; an item is named by its number among the
\* items processed
RECURSIVE AddMany(_, _, _)
AddMany(wm, memory_type, n) ==
    IF n = 0 THEN wm
    ELSE AddMany(AddItem(wm, wm.total_items_processed + 1, memory_type), memory_type, n - 1)

\* how many items each buffer was given before the calls that are followed:
\* none, one short of the capacity, or the capacity
FillLevels == {0, WorkingMemoryCapacity - 1, WorkingMemoryCapacity}

FilledWorkingMemory(levels) ==
    AddMany(AddMany(AddMany(EmptyWorkingMemory, "phonological", levels["phonological"]),
                    "visuospatial", levels["visuospatial"]),
            "episodic", levels["episodic"])

\* a working memory after the add_item calls of some fill levels
InitFilledWorkingMemory ==
    /\ \E levels \in [MemoryTypes -> FillLevels] :
          /\ phonological_loop = FilledWorkingMemory(levels).phonological
          /\ visuospatial_sketchpad = FilledWorkingMemory(levels).visuospatial
          /\ episodic_buffer = FilledWorkingMemory(levels).episodic
          /\ items_processed = FilledWorkingMemory(levels).total_items_processed
          /\ interference_events = FilledWorkingMemory(levels).interference_events
    /\ wm_calls = 0

\* a call of WorkingMemory.add_item; memory_type "other" is one of the strings
\* that name no buffer
AddItemCall ==
    /\ wm_calls < MaxAdds
    /\ \E memory_type \in MemoryTypes \cup {"other"} :
          SetWorkingMemory(AddItem(WorkingMemoryNow, items_processed + 1, memory_type))
    /\ wm_calls' = wm_calls + 1
    /\ UNCHANGED <<decision_history, strategy_performance, monitoring_history_len, metaVars,
                   conflict_history_len>>
    /\ UNCHANGED <<attnVars, memVars, kernelVars, clockVars, fbVars, insVars, emoVars,
                   modeVars, learnVars, probeVars>>

NextWM == AddItemCall

\* _rational_analysis, lines 765-771: the utility of a task, times 10^6
RationalScore(task) ==
    LET estimated_success_prob == Milli - (task.complexity * 3) \div 10
        expected_benefit == task.importance * estimated_success_prob
        estimated_cost == task.required_attention \div (AttnUnit \div Pow10(4))
    IN expected_benefit - estimated_cost

\* _intuitive_analysis, lines 796-806: three times the score, times 10^4
IntuitiveScore(task) ==
    LET familiarity == Milli - task.complexity
        typical_pattern == IF task.task_type \in {"simple", "qa"} THEN 700 ELSE 500
    IN 10 * familiarity + 10 * typical_pattern + 8 * task.urgency

\* _emotional_analysis, lines 830-840: three times the score, times 10^4
EmotionalScore(task) ==
    LET stress_relief == IF task.task_type = "creative"
                         THEN Milli - task.complexity ELSE 300
    IN 10 * task.emotional_weight + 10 * stress_relief + 8 * task.importance

\* scores.sort(reverse=True); scores[0][1] if scores else tasks[0].
\* The tuples (score, task) are compared: two different tasks of one score
\* raise TypeError, and tasks[0] of no task raises IndexError.
BestTask(tasks, scores) ==
    LET n == Len(tasks)
        tie == \E i, j \in 1..n : i # j /\ scores[i] = scores[j] /\ tasks[i] # tasks[j]
    IN IF n = 0 \/ tie THEN [raised |-> TRUE, task |-> NoTask]
       ELSE LET best == CHOOSE i \in 1..n :
                           /\ \A j \in 1..n : scores[j] <= scores[i]
                           /\ \A j \in 1..(i - 1) : scores[j] < scores[i]
            IN [raised |-> FALSE, task |-> tasks[best].task_id]

\* what the except clause of an evaluator returns
FailedEvaluation(strategy) ==
    [strategy |-> strategy, confidence |-> 100, recommended_task |-> NoTask]

\* ExecutiveController._rational_analysis
RationalAnalysis(tasks, raises) ==
    LET best == BestTask(tasks, [i \in 1..Len(tasks) |-> RationalScore(tasks[i])])
    IN IF raises \/ best.raised THEN FailedEvaluation("rational")
       ELSE [strategy |-> "rational", confidence |-> 800, recommended_task |-> best.task]

\* ExecutiveController._intuitive_analysis
IntuitiveAnalysis(tasks, raises) ==
    LET best == BestTask(tasks, [i \in 1..Len(tasks) |-> IntuitiveScore(tasks[i])])
    IN IF raises \/ best.raised THEN FailedEvaluation("intuitive")
       ELSE [strategy |-> "intuitive", confidence |-> 600, recommended_task |-> best.task]

\* ExecutiveController._emotional_analysis
EmotionalAnalysis(tasks, raises) ==
    LET best == BestTask(tasks, [i \in 1..Len(tasks) |-> EmotionalScore(tasks[i])])
    IN IF raises \/ best.raised THEN FailedEvaluation("emotional")
       ELSE [strategy |-> "emotional", confidence |-> 700, recommended_task |-> best.task]

\* a conflict detection that counts the missing recommendation of a failed
\* evaluator as one more recommendation
DetectEvaluationConflicts_CountsMissing(evaluations) ==
    LET unique_recommendations ==
            { evaluations[i].recommended_task : i \in 1..Len(evaluations) }
    IN Cardinality(unique_recommendations) > 1

\* ExecutiveController._detect_evaluation_conflicts
DetectEvaluationConflicts(evaluations) ==
    LET unique_recommendations ==
            { evaluations[i].recommended_task : i \in 1..Len(evaluations) } \ {NoTask}
    IN Cardinality(unique_recommendations) > 1

\* an integration that takes min() for max(): the first of the evaluations of
\* the lowest confidence
IntegrateEvaluations_Lowest(evaluations) ==
    LET n == Len(evaluations)
        conf == [i \in 1..n |-> evaluations[i].confidence]
        total_confidence == SumOver(conf, 1..n)
    IN IF total_confidence = 0 THEN evaluations[1]
       ELSE LET best == CHOOSE i \in 1..n :
                           /\ \A j \in 1..n : conf[j] >= conf[i]
                           /\ \A j \in 1..(i - 1) : conf[j] > conf[i]
            IN [evaluations[best] EXCEPT !.strategy = "hybrid"]

\* ExecutiveController._integrate_evaluations: max() keeps the first of the
\* evaluations of the highest confidence
IntegrateEvaluations(evaluations) ==
    LET n == Len(evaluations)
        conf == [i \in 1..n |-> evaluations[i].confidence]
        total_confidence == SumOver(conf, 1..n)
    IN IF total_confidence = 0 THEN evaluations[1]
       ELSE LET best == CHOOSE i \in 1..n :
                           /\ \A j \in 1..n : conf[j] <= conf[i]
                           /\ \A j \in 1..(i - 1) : conf[j] < conf[i]
            IN [evaluations[best] EXCEPT !.strategy = "hybrid"]

\* context.get('available_resources', 100)
DefaultAvailableResources == 100

\* a context that holds neither system_state nor available_resources
DefaultContext == [stress_level |-> 0, available_resources |-> DefaultAvailableResources]

\* The options of resolve_conflict are the evaluations of the three evaluators:
\* dicts with the keys strategy, recommended_task, confidence, rationale and
\* evaluation_details.  option.get(key, default) of any other key is the default.
OptionGet(option, key, default) ==
    IF key \in DOMAIN option THEN option[key] ELSE default

\* sorted(options, key=..., reverse=True)[0]: the sort is stable, so the first
\* of the options of the highest key
FirstOfHighest(options, keys) ==
    LET best == CHOOSE i \in 1..Len(options) :
                    /\ \A j \in 1..Len(options) : keys[j] <= keys[i]
                    /\ \A j \in 1..(i - 1) : keys[j] < keys[i]
    IN options[best]

\* a classification that reads the priorities off the strategies of the options
IdentifyConflictType_ByStrategy(options, context) ==
    LET n == Len(options)
        total_required_resources ==
            SumOver([i \in 1..n |-> OptionGet(options[i], "required_resources", 0)], 1..n)
        priorities == { OptionGet(options[i], "strategy", 0) : i \in 1..n }
        deadlines == SelectSeq(options, LAMBDA o : OptionGet(o, "deadline", 0) # 0)
        strategies == { OptionGet(options[i], "strategy", NoTask) : i \in 1..n }
    IN IF total_required_resources > context.available_resources THEN "resource_conflict"
       ELSE IF Cardinality(priorities) * 2 < n THEN "priority_conflict"
       ELSE IF Len(deadlines) > 1 THEN "temporal_conflict"
       ELSE IF Cardinality(strategies) = n THEN "strategy_conflict"
       ELSE "generic_conflict"

\* ConflictResolver._identify_conflict_type
IdentifyConflictType(options, context) ==
    LET n == Len(options)
        total_required_resources ==
            SumOver([i \in 1..n |-> OptionGet(options[i], "required_resources", 0)], 1..n)
        priorities == { OptionGet(options[i], "priority", 0) : i \in 1..n }
        deadlines == SelectSeq(options, LAMBDA o : OptionGet(o, "deadline", 0) # 0)
        strategies == { OptionGet(options[i], "strategy", NoTask) : i \in 1..n }
    IN IF total_required_resources > context.available_resources THEN "resource_conflict"
       ELSE IF Cardinality(priorities) * 2 < n THEN "priority_conflict"
       ELSE IF Len(deadlines) > 1 THEN "temporal_conflict"
       ELSE IF Cardinality(strategies) = n THEN "strategy_conflict"
       ELSE "generic_conflict"

\* ConflictResolver._resolve_resource_conflict: the highest
\* expected_value / max(required_resources, 1)
ResolveResourceConflict(options) ==
    FirstOfHighest(options,
        [i \in 1..Len(options) |->
            OptionGet(options[i], "expected_value", 0)
                \div Max(OptionGet(options[i], "required_resources", 1), 1)])

\* ConflictResolver._resolve_priority_conflict: the highest
\* emotional_weight * 0.4 + urgency * 0.6, times 10
ResolvePriorityConflict(options) ==
    FirstOfHighest(options,
        [i \in 1..Len(options) |->
            4 * OptionGet(options[i], "emotional_weight", 0)
                + 6 * OptionGet(options[i], "urgency", 0)])

\* ConflictResolver._resolve_temporal_conflict: the nearest deadline; an option
\* without one has datetime.max, later than every deadline
ResolveTemporalConflict(options) ==
    FirstOfHighest(options,
        [i \in 1..Len(options) |-> 0 - OptionGet(options[i], "deadline", 1000000000)])

\* ConflictResolver._resolve_strategy_conflict: the strategies of the options
\* are members of DecisionStrategy, which equal neither 'conservative' nor
\* 'rational', so both searches fail and the fallback returns options[0]
ResolveStrategyConflict(options, context) == options[1]

\* ConflictResolver._resolve_generic_conflict: the highest weighted score, which
\* for an evaluation is confidence * 0.2.  scored_options.sort compares the
\* tuples (score, option): two options of one score raise TypeError.
ResolveGenericConflict(options) ==
    LET n == Len(options)
        score == [i \in 1..n |-> 2 * OptionGet(options[i], "confidence", 0)]
    IN IF \E i, j \in 1..n : i # j /\ score[i] = score[j]
       THEN [raised |-> TRUE, option |-> options[1]]
       ELSE [raised |-> FALSE, option |-> FirstOfHighest(options, score)]

\* ConflictResolver.resolve_conflict: the conflict is classified and the
\* resolver of its type is called; the except clause returns the first option
\* and records nothing.
ResolveConflict(options, context, raises) ==
    LET conflict_type == IdentifyConflictType(options, context)
        generic == ResolveGenericConflict(options)
        failed == raises \/ (conflict_type = "generic_conflict" /\ generic.raised)
        resolved ==
            CASE conflict_type = "resource_conflict" -> ResolveResourceConflict(options)
              [] conflict_type = "priority_conflict" -> ResolvePriorityConflict(options)
              [] conflict_type = "temporal_conflict" -> ResolveTemporalConflict(options)
              [] conflict_type = "strategy_conflict" ->
                     ResolveStrategyConflict(options, context)
              [] OTHER -> generic.option
    IN [resolved |-> IF failed THEN options[1] ELSE resolved,
        recorded |-> ~failed,
        conflict_type |-> IF raises THEN "none" ELSE conflict_type]

\* _continuous_monitoring, line 576: the maximum monitoring time (300 s), in
\* tenths of a second
MaxMonitoringTime == 3000

\* _continuous_monitoring, line 573: asyncio.sleep(1.0)
MetaSleep == 10

\* _assess_current_performance: context.get('estimated_duration', 60)
EstimatedDuration == 600

\* the elapsed time taken from the previous poll
ElapsedTime_SincePoll(started, polled, now) == now - polled

\* _continuous_monitoring, lines 558-559: elapsed_time
ElapsedTime(started, polled, now) == now - started

\* a limit of 300 minutes in place of 300 seconds
MonitoringExpired_Minutes(elapsed_time) == elapsed_time > MaxMonitoringTime * 60

\* _continuous_monitoring, line 576: if elapsed_time > 300
MonitoringExpired(elapsed_time) == elapsed_time > MaxMonitoringTime

\* start_monitoring, lines 530-543: the monitoring context and the task
\* created for it.  polled is the time of the last poll, assessment_errors
\* the polls of the task in which the assessment raised.
MonitoringTask(decision, now) ==
    [pc |-> "new", timer |-> 0, start_time |-> now, polled |-> now, elapsed_time |-> 0,
     assessment_errors |-> 0, decision_id |-> decision.decision_id,
     strategy |-> decision.chosen_strategy, confidence |-> decision.confidence]

\* MetaCognitiveMonitor._assess_current_performance; progress_deviation in
\* units of 1/600.  The except clause returns needs_intervention alone.
AssessCurrentPerformance(context, now, raises) ==
    IF raises THEN [needs_intervention |-> FALSE]
    ELSE LET elapsed_time == now - context.start_time
             progress_deviation == elapsed_time - Min(elapsed_time, EstimatedDuration)
         IN [progress_deviation |-> progress_deviation,
             needs_intervention |-> \/ 10 * progress_deviation > 3 * EstimatedDuration
                                    \/ 2 * elapsed_time > 3 * EstimatedDuration,
             confidence_drift |-> context.confidence - 500,
             elapsed_time |-> elapsed_time]

\* MetaCognitiveMonitor._update_metacognitive_beliefs; strategy_effectiveness
\* in units of 0.05, confidence_calibration in units of 0.00005
UpdateMetacognitiveBeliefs(beliefs, context, assessment) ==
    LET effectiveness == beliefs.strategy_effectiveness
        before == IF context.strategy \in DOMAIN effectiveness
                  THEN effectiveness[context.strategy] ELSE 0
        after == IF ~assessment.needs_intervention THEN before + 2 ELSE before - 1
        confidence_error == IF context.confidence >= 500 THEN context.confidence - 500
                            ELSE 500 - context.confidence
    IN [strategy_effectiveness |->
            [s \in DOMAIN effectiveness \cup {context.strategy} |->
                IF s = context.strategy THEN after ELSE effectiveness[s]],
        confidence_calibration |-> beliefs.confidence_calibration + confidence_error]

\* ExecutiveController._form_executive_decision
FormExecutiveDecision(decision_id, evaluation, attention_allocations) ==
    [kind |-> "exec",
     decision_id |-> decision_id,
     chosen_strategy |-> evaluation.strategy,
     task_sequence |-> IF evaluation.recommended_task # NoTask
                       THEN <<evaluation.recommended_task>> ELSE <<>>,
     resource_allocation |-> attention_allocations,
     confidence |-> evaluation.confidence]

\* a fallback that keeps the default strategy of _form_executive_decision
ExecutiveFallbackDecision_Rational(decision_id, tasks) ==
    [kind |-> "fallback",
     decision_id |-> decision_id,
     chosen_strategy |-> "rational",
     task_sequence |-> IF tasks # <<>> THEN <<tasks[1].task_id>> ELSE <<>>,
     resource_allocation |-> EmptyMap,
     confidence |-> 300]

\* ExecutiveController._create_fallback_decision
ExecutiveFallbackDecision(decision_id, tasks) ==
    [kind |-> "fallback",
     decision_id |-> decision_id,
     chosen_strategy |-> "conservative",
     task_sequence |-> IF tasks # <<>> THEN <<tasks[1].task_id>> ELSE <<>>,
     resource_allocation |-> EmptyMap,
     confidence |-> 300]

\* update_strategy_performance, lines 944-953: the score appended, in thousandths.
\* performance_metrics carries efficiency and no quality or user_satisfaction.
PerformanceScore(success, has_metrics, efficiency) ==
    LET performance_score == IF success THEN 1000 ELSE 0
        weighted_score == (efficiency * 3) \div 10 + 200 + 150
    IN IF has_metrics THEN (performance_score + weighted_score) \div 2
       ELSE performance_score

\* ExecutiveController.update_strategy_performance: the decision is looked up
\* in decision_history, newest first
\* a lookup that takes the newest decision whatever its id is
UpdateStrategyPerformance_Newest(perf, history, decision_id, success, has_metrics, efficiency) ==
    LET found == 1..Len(history)
    IN IF found = {} THEN perf
       ELSE LET target_decision == history[CHOOSE i \in found : \A j \in found : j <= i]
                strategy == target_decision.chosen_strategy
                old == IF strategy \in DOMAIN perf THEN perf[strategy] ELSE <<>>
                score == PerformanceScore(success, has_metrics, efficiency)
            IN [s \in DOMAIN perf \cup {strategy} |->
                   IF s = strategy THEN Append(old, score) ELSE perf[s]]

UpdateStrategyPerformance(perf, history, decision_id, success, has_metrics, efficiency) ==
    LET found == { i \in 1..Len(history) : history[i].decision_id = decision_id }
    IN IF found = {} THEN perf
       ELSE LET target_decision == history[CHOOSE i \in found : \A j \in found : j <= i]
                strategy == target_decision.chosen_strategy
                old == IF strategy \in DOMAIN perf THEN perf[strategy] ELSE <<>>
                score == PerformanceScore(success, has_metrics, efficiency)
            IN [s \in DOMAIN perf \cup {strategy} |->
                   IF s = strategy THEN Append(old, score) ELSE perf[s]]

-----------------------------------------------------------------------------
(***************************************************************************)
(* IntegratedNeuralSystem.process_goal_neural.                             *)
(*                                                                         *)
(* A call is a coroutine: it runs until it suspends, at asyncio.gather of  *)
(* the three evaluators and at asyncio.sleep(0.1) of the simulated         *)
(* execution, and other calls run in between.  A goal of `goals` carries   *)
(* the locals of its call and pc, the await it is suspended at.            *)
(*                                                                         *)
(* faults is the set of the stages that raise in the call: every stage has *)
(* an except clause of its own, and what is left has the one of            *)
(* process_goal_neural.                                                    *)
(***************************************************************************)

\* NeuralIntegrationLevel
BASIC == 1
SEAMLESS == 4

\* the goals of the model and the task ids "task_<hash>" made of them.
\* "Hello world" is SAFE, "delete data" MODERATE, "sudo rm -rf /" CRITICAL.
DescDeleteData == <<"d", "e", "l", "e", "t", "e", " ", "d", "a", "t", "a">>

GoalTexts == {DescHelloWorld, DescDeleteData, DescSudoRm}

TaskIdOf(user_goal) ==
    CASE user_goal = DescHelloWorld -> "task_hello_world"
      [] user_goal = DescDeleteData -> "task_delete_data"
      [] user_goal = DescSudoRm -> "task_sudo_rm"
      [] OTHER -> "task_other"

\* the vitals a goal may find: a healthy and a critical reading
GoalReadings ==
    { r \in KernelReadings : r.cpu_usage = r.memory_usage /\ r.cpu_usage # 80 }

Evaluators == {"rational", "intuitive", "emotional"}

FaultPoints ==
    {"sampling", "status", "foundation", "emotion", "limbic", "mode", "adapt",
     "options", "cognitive", "scheduling", "form", "monitor", "execute",
     "learning", "result"} \cup Evaluators

\* the faults of one call: none, one stage, or several of the evaluators
FaultSets ==
    {{}} \cup { {p} : p \in FaultPoints } \cup SUBSET Evaluators

\* NeuralKernel.get_comprehensive_status and _check_neural_foundation: the
\* system_state, and whether the snapshot went into the health history.
\* sampling_raises: psutil raises in check_system_vitals; status_raises: the
\* rest of get_comprehensive_status raises; foundation_raises: the body of
\* _check_neural_foundation raises after the status came back.
CheckNeuralFoundation(has_kernel, reading, sampling_raises, status_raises, foundation_raises) ==
    IF ~has_kernel
    THEN [health_status |-> "unknown", foundation_stable |-> FALSE, recorded |-> FALSE]
    ELSE LET health == CheckSystemVitals(reading, sampling_raises)
             status == IF status_raises THEN "unknown" ELSE health.overall_status
         IN IF foundation_raises
            THEN [health_status |-> "none", foundation_stable |-> FALSE,
                  recorded |-> health.recorded]
            ELSE [health_status |-> status,
                  foundation_stable |-> status \in {"healthy", "warning"},
                  recorded |-> health.recorded]

\* _evaluate_emotional_limbic, lines 485-493: no emotional system
DefaultEmotionalContext ==
    [threat_level |-> MODERATE, emotional_weight |-> 500, confidence |-> 300,
     valence |-> 0, arousal |-> 500, state |-> "neutral"]

\* _evaluate_emotional_limbic, lines 499-507: the except clause
LimbicErrorContext ==
    [threat_level |-> MODERATE, emotional_weight |-> 500, confidence |-> 100,
     valence |-> 0, arousal |-> 500, state |-> "neutral"]

\* IntegratedNeuralSystem._evaluate_emotional_limbic
EvaluateEmotionalLimbic(has_emotional, user_goal, learned, mem, evaluation_raises, limbic_raises) ==
    IF limbic_raises THEN [context |-> LimbicErrorContext, recorded |-> FALSE]
    ELSE IF has_emotional
         THEN EvaluateTaskEmotion(user_goal, "general", learned, mem, evaluation_raises)
         ELSE [context |-> DefaultEmotionalContext, recorded |-> FALSE]

\* a mode selection whose emergency test looks at the threat level only
DetermineProcessingMode_ThreatOnly(foundation_stable, emotional_context, raises) ==
    IF raises THEN [mode |-> "maintenance", emergency_activation |-> FALSE]
    ELSE IF emotional_context.threat_level >= HIGH
         THEN [mode |-> "emergency", emergency_activation |-> TRUE]
    ELSE IF emotional_context.arousal > 600
         THEN [mode |-> "intuitive", emergency_activation |-> FALSE]
    ELSE IF emotional_context.confidence > 400 \/ emotional_context.emotional_weight > 600
         THEN [mode |-> "analytical", emergency_activation |-> FALSE]
    ELSE [mode |-> "maintenance", emergency_activation |-> FALSE]

\* IntegratedNeuralSystem._determine_processing_mode: the mode, and whether
\* learning_metrics['emergency_activations'] was counted up.
\* EMERGENCY_THRESHOLD is ThreatLevel.HIGH.
DetermineProcessingMode(foundation_stable, emotional_context, raises) ==
    IF raises THEN [mode |-> "maintenance", emergency_activation |-> FALSE]
    ELSE IF emotional_context.threat_level >= HIGH \/ ~foundation_stable
         THEN [mode |-> "emergency", emergency_activation |-> TRUE]
    ELSE IF emotional_context.threat_level = HIGH
         THEN [mode |-> "emergency", emergency_activation |-> FALSE]
    ELSE IF emotional_context.arousal > 600
         THEN [mode |-> "intuitive", emergency_activation |-> FALSE]
    ELSE IF emotional_context.confidence > 400 \/ emotional_context.emotional_weight > 600
         THEN [mode |-> "analytical", emergency_activation |-> FALSE]
    ELSE [mode |-> "maintenance", emergency_activation |-> FALSE]

\* IntegratedNeuralSystem._adapt_integration_level: the level after it
AdaptIntegrationLevel(level, processing_mode, raises) ==
    IF raises THEN level
    ELSE CASE processing_mode = "emergency" -> 3
           [] processing_mode = "analytical" -> SEAMLESS
           [] processing_mode = "intuitive" -> 2
           [] OTHER -> BASIC

\* IntegratedNeuralSystem._generate_task_options
GenerateTaskOptions(user_goal, emotional_context, raises) ==
    IF raises THEN <<>>
    ELSE << [task_id |-> TaskIdOf(user_goal),
             description |-> user_goal,
             task_type |-> "general",
             urgency |-> emotional_context.arousal,
             importance |-> IF emotional_context.valence < 0
                            THEN 0 - emotional_context.valence
                            ELSE emotional_context.valence,
             complexity |-> emotional_context.threat_level * 200,
             required_attention |->
                 50 * AttnUnit + emotional_context.emotional_weight * 30 * (AttnUnit \div Milli),
             emotional_weight |-> emotional_context.emotional_weight,
             deadline |-> NoDeadline] >>

\* an emergency decision that keeps the confidence of the fallback
EmergencyResponseDecision_Fallback(decision_id, user_goal) ==
    [kind |-> "emergency",
     decision_id |-> decision_id,
     chosen_strategy |-> "conservative",
     task_sequence |-> <<TaskIdOf(user_goal)>>,
     resource_allocation |-> [emergency_allocation |-> 50 * AttnUnit],
     confidence |-> 300]

\* IntegratedNeuralSystem._emergency_response_decision
EmergencyResponseDecision(decision_id, user_goal) ==
    [kind |-> "emergency",
     decision_id |-> decision_id,
     chosen_strategy |-> "conservative",
     task_sequence |-> <<TaskIdOf(user_goal)>>,
     resource_allocation |-> [emergency_allocation |-> 50 * AttnUnit],
     confidence |-> 600]

\* IntegratedNeuralSystem._create_fallback_decision
CreateFallbackDecision(decision_id, user_goal) ==
    [kind |-> "fallback",
     decision_id |-> decision_id,
     chosen_strategy |-> "conservative",
     task_sequence |-> <<TaskIdOf(user_goal)>>,
     resource_allocation |-> EmptyMap,
     confidence |-> 300]

\* _execute_with_neural_monitoring, lines 657-684: the success probability
SuccessProbability(executive_decision, emotional_context, processing_mode, level) ==
    LET base_success == (executive_decision.confidence * 4) \div 10
        integration_bonus == level * 150
        mode_adjustment == CASE processing_mode = "emergency" -> 300
                             [] processing_mode = "analytical" -> 200
                             [] processing_mode = "intuitive" -> 100
                             [] OTHER -> 200
        threat_adjustment ==
            IF emotional_context.threat_level = CRITICAL THEN 100
            ELSE IF emotional_context.threat_level = HIGH THEN 150
            ELSE (6 - emotional_context.threat_level) * 100
        success_probability ==
            base_success + integration_bonus + mode_adjustment + threat_adjustment
    IN Min(Max(success_probability, 100), 950)

\* IntegratedNeuralSystem._execute_with_neural_monitoring, after the sleep:
\* the execution_result.  The execution_time measured is the 0.1 s slept.
ExecuteWithNeuralMonitoring(executive_decision, emotional_context, processing_mode, level, raises) ==
    IF raises
    THEN [success |-> FALSE, execution_time |-> 0, quality |-> NoQuality,
          has_metrics |-> FALSE]
    ELSE LET success_probability ==
                 SuccessProbability(executive_decision, emotional_context,
                                    processing_mode, level)
         IN [success |-> success_probability > 500, execution_time |-> 1,
             quality |-> success_probability, has_metrics |-> TRUE]

\* an optimisation that strengthens the integration at the top level too
OptimizeIntegrationLevel_Unclamped(level, success_metric) ==
    IF success_metric > 800
    THEN level + 1
    ELSE IF success_metric < 300
         THEN (IF level > BASIC THEN level - 1 ELSE level)
         ELSE level

\* optimize_neural_connections, lines 831-837: the integration level after it
OptimizeIntegrationLevel(level, success_metric) ==
    IF success_metric > 800
    THEN (IF level < SEAMLESS THEN level + 1 ELSE level)
    ELSE IF success_metric < 300
         THEN (IF level > BASIC THEN level - 1 ELSE level)
         ELSE level

\* a relaxation of the immediate loops without the upper limit of 1.0 s
OptimizeFeedbackEfficiency_Uncapped(loops, success_metric) ==
    [id \in DOMAIN loops |->
        IF loops[id].loop_type # "immediate" THEN loops[id]
        ELSE IF success_metric > 800
             THEN [loops[id] EXCEPT !.update_interval = (@ * 11) \div 10]
        ELSE IF success_metric < 300
             THEN [loops[id] EXCEPT
                     !.update_interval = Max((@ * 9) \div 10, IntervalScale \div 2)]
        ELSE loops[id]]

\* IntegratedNeuralSystem._optimize_feedback_efficiency
OptimizeFeedbackEfficiency(loops, success_metric) ==
    [id \in DOMAIN loops |->
        IF loops[id].loop_type # "immediate" THEN loops[id]
        ELSE IF success_metric > 800
             THEN [loops[id] EXCEPT
                     !.update_interval = Min((@ * 11) \div 10, 10 * IntervalScale)]
        ELSE IF success_metric < 300
             THEN [loops[id] EXCEPT
                     !.update_interval = Max((@ * 9) \div 10, IntervalScale \div 2)]
        ELSE loops[id]]

\* the EmotionalContext of _create_error_result
ErrorResultContext ==
    [threat_level |-> HIGH, emotional_weight |-> 800, confidence |-> 100,
     valence |-> -500, arousal |-> 700, state |-> "frustrated"]

\* _create_processing_result reporting the mode that the shared integration
\* level stands for at the time of the return
CreateProcessingResult_LevelMode(processing_mode, level, executive_decision, emotional_context, execution_result) ==
    [raised |-> FALSE,
     processing_mode |-> IF level = 3 THEN "emergency"
                         ELSE IF level = SEAMLESS THEN "analytical"
                         ELSE IF level = 2 THEN "intuitive"
                         ELSE "maintenance",
     integration_level |-> level,
     executive_decision |-> executive_decision,
     emotional_context |-> emotional_context,
     success |-> execution_result.success,
     error |-> FALSE]

\* IntegratedNeuralSystem._create_processing_result
CreateProcessingResult(processing_mode, level, executive_decision, emotional_context, execution_result) ==
    [raised |-> FALSE,
     processing_mode |-> processing_mode,
     integration_level |-> level,
     executive_decision |-> executive_decision,
     emotional_context |-> emotional_context,
     success |-> execution_result.success,
     error |-> FALSE]

\* the except clause of process_goal_neural lets the exception through
OnGoalException_Propagates(decision_id, user_goal, level) ==
    [raised |-> TRUE,
     processing_mode |-> "none",
     integration_level |-> level,
     executive_decision |-> [kind |-> "none", decision_id |-> decision_id,
                             chosen_strategy |-> "none", task_sequence |-> <<>>,
                             resource_allocation |-> EmptyMap, confidence |-> -1],
     emotional_context |-> ErrorResultContext,
     success |-> FALSE,
     error |-> TRUE]

\* process_goal_neural, lines 448-450, and _create_error_result: what the call
\* returns when a stage raised outside the except clauses of the stages
OnGoalException(decision_id, user_goal, level) ==
    [raised |-> FALSE,
     processing_mode |-> "maintenance",
     integration_level |-> level,
     executive_decision |-> CreateFallbackDecision(decision_id, user_goal),
     emotional_context |-> ErrorResultContext,
     success |-> FALSE,
     error |-> TRUE]

NoResult == [raised |-> FALSE, processing_mode |-> "none", error |-> FALSE]

NoDecision == [kind |-> "none"]

\* IntegratedNeuralSystem.__init__, EmotionalProcessingSystem.__init__,
\* ThreatDetector.__init__, RewardSystem.__init__, ExecutiveController.__init__
InitGoal ==
    /\ components = NoComponents
    /\ current_integration_level = BASIC
    /\ learning_metrics = [total_goals_processed |-> 0, successful_integrations |-> 0,
                           emergency_activations |-> 0, adaptation_events |-> 0]
    /\ processing_history_len = 0
    /\ goals = <<>>
    /\ emotional_history_len = 0
    /\ current_emotional_state = "neutral"
    /\ reward_history_len = 0
    /\ expected_rewards = EmptyMap
    /\ decision_history = <<>>
    /\ strategy_performance = EmptyMap
    /\ monitoring_history_len = 0
    /\ monitoring_active = FALSE
    /\ meta_tasks = <<>>
    /\ metacognitive_beliefs = [strategy_effectiveness |-> EmptyMap,
                                confidence_calibration |-> 0]
    /\ conflict_history_len = 0

\* the candidate as AttentionManager._calculate_priority reads it, in tenths.
\* The priority of a lone candidate is compared with no other.
SchedulerTask(task) ==
    [task EXCEPT !.urgency = @ \div 100, !.importance = @ \div 100,
                 !.complexity = @ \div 100, !.emotional_weight = @ \div 100]

\* the calls made so far in which a stage raises
FaultyGoals == Cardinality({ g \in 1..Len(goals) : goals[g].faults # {} })

RECURSIVE SchedulerTasks(_)
SchedulerTasks(tasks) ==
    IF tasks = <<>> THEN <<>>
    ELSE <<SchedulerTask(Head(tasks))>> \o SchedulerTasks(Tail(tasks))

\* process_goal_neural from the call to the first await that suspends:
\* stages 1 to 4 and, of stage 5, either the whole of it (the emergency and
\* the fallback decisions) or executive_decision up to asyncio.gather.
GoalBegin ==
    /\ Len(goals) < MaxGoals
    /\ Len(goals) < MaxStores
    /\ \E user_goal \in GoalTexts, faults \in FaultSets, reading \in GoalReadings :
       /\ faults # {} => FaultyGoals < MaxFaultyGoals
       /\ \E foundation \in
                 { CheckNeuralFoundation(components.neural_kernel, reading,
                                         "sampling" \in faults, "status" \in faults,
                                         "foundation" \in faults) },
             limbic \in
                 { EvaluateEmotionalLimbic(components.emotional_system, user_goal,
                                           learned_threats, episodic_memory,
                                           "emotion" \in faults, "limbic" \in faults) } :
          \E selected \in
                 { DetermineProcessingMode(foundation.foundation_stable, limbic.context,
                                           "mode" \in faults) } :
          \E task_options \in
                 { IF selected.mode # "emergency" /\ components.executive_controller
                   THEN GenerateTaskOptions(user_goal, limbic.context,
                                            "options" \in faults)
                   ELSE <<>> } :
          \E granted \in
                 { AllocateAttentionOp(attention_resource, active_tasks,
                                       attention_history,
                                       SchedulerTasks(task_options), attn_now) } :
          LET g == Len(goals) + 1
              emotional_context == limbic.context
              processing_mode == selected.mode
              level == AdaptIntegrationLevel(current_integration_level, processing_mode,
                                             "adapt" \in faults)
              cognitive == processing_mode # "emergency" /\ components.executive_controller
              deciding == cognitive /\ "cognitive" \notin faults
              scheduling == deciding /\ "scheduling" \notin faults
              executive_decision ==
                  IF processing_mode = "emergency"
                  THEN EmergencyResponseDecision(g, user_goal)
                  ELSE IF deciding THEN NoDecision
                  ELSE CreateFallbackDecision(g, user_goal)
          IN /\ health_history_len' = IF foundation.recorded
                                      THEN AppendHistory(health_history_len)
                                      ELSE health_history_len
             /\ emotional_history_len' = IF limbic.recorded
                                         THEN Min(emotional_history_len + 1, 100)
                                         ELSE emotional_history_len
             /\ current_emotional_state' = IF limbic.recorded THEN emotional_context.state
                                           ELSE current_emotional_state
             /\ current_integration_level' = level
             /\ learning_metrics' =
                  [learning_metrics EXCEPT
                     !.emergency_activations =
                         @ + (IF selected.emergency_activation THEN 1 ELSE 0),
                     !.adaptation_events =
                         @ + (IF level # current_integration_level THEN 1 ELSE 0)]
             /\ IF deciding /\ task_options # <<>>
                THEN /\ SetWorkingMemory(AddItem(WorkingMemoryNow, items_processed + 1,
                                                 "episodic"))
                     /\ UNCHANGED wm_calls
                ELSE UNCHANGED wmVars
             /\ IF scheduling
                THEN /\ attention_resource' = granted.res
                     /\ active_tasks' = granted.active
                     /\ attention_history' = granted.history
                     /\ last_allocations' = [allocations |-> granted.allocations,
                                             order |-> granted.order, exc |-> granted.exc]
                     /\ attn_rounds' = attn_rounds + 1
                ELSE UNCHANGED <<attention_resource, active_tasks, attention_history,
                                 last_allocations, attn_rounds>>
             /\ goals' = Append(goals,
                  [pc |-> IF deciding THEN "gather" ELSE "execute",
                   user_goal |-> user_goal,
                   faults |-> faults,
                   has_controller |-> components.executive_controller,
                   system_state |-> [health_status |-> foundation.health_status,
                                     foundation_stable |-> foundation.foundation_stable],
                   emotional_context |-> emotional_context,
                   processing_mode |-> processing_mode,
                   task_options |-> task_options,
                   attention_allocations |-> IF scheduling THEN granted.allocations
                                             ELSE EmptyMap,
                   executive_decision |-> executive_decision,
                   result |-> NoResult])
    /\ UNCHANGED <<attn_releases, attn_now>>
    /\ UNCHANGED <<always_running, monitoring_task, start_time, kernel_stats, mon_tasks,
                   emergency_log_len, last_fault, prev_fault, stop_waiters, stop_outcome,
                   calls, last_call, call_kinds>>
    /\ UNCHANGED <<components, processing_history_len, learned_threats,
                   reward_history_len, expected_rewards, decision_history,
                   strategy_performance, monitoring_history_len, metaVars,
                   conflict_history_len>>
    /\ UNCHANGED <<active_loops, fb_tasks, fb_metrics, loop_history_len, last_pass>>
    /\ UNCHANGED <<memVars, clockVars, modeVars, learnVars,
                   probeVars>>

\* executive_decision from asyncio.gather on: the three evaluations, conflict
\* detection, the decision, the meta-cognitive monitoring and the history;
\* then _execute_with_neural_monitoring up to its asyncio.sleep(0.1).
\* A raise of _form_executive_decision reaches the except clause of
\* executive_decision.
GoalFuse(g) ==
    /\ goals[g].pc = "gather"
    /\ LET goal == goals[g]
           faults == goal.faults
           evaluations ==
               << RationalAnalysis(goal.task_options, "rational" \in faults),
                  IntuitiveAnalysis(goal.task_options, "intuitive" \in faults),
                  EmotionalAnalysis(goal.task_options, "emotional" \in faults) >>
           conflict == DetectEvaluationConflicts(evaluations)
           resolution == ResolveConflict(evaluations, DefaultContext, FALSE)
           resolved_evaluation == IF conflict THEN resolution.resolved
                                  ELSE IntegrateEvaluations(evaluations)
           formed == "form" \notin faults
           executive_decision ==
               IF formed
               THEN FormExecutiveDecision(g, resolved_evaluation, goal.attention_allocations)
               ELSE ExecutiveFallbackDecision(g, goal.task_options)
           monitored == formed /\ "monitor" \notin faults
       IN /\ conflict_history_len' = IF conflict /\ resolution.recorded
                                     THEN Min(conflict_history_len + 1, ConflictHistoryMaxLen)
                                     ELSE conflict_history_len
          /\ monitoring_history_len' = monitoring_history_len + (IF monitored THEN 1 ELSE 0)
          /\ monitoring_active' = (monitoring_active \/ formed)
          /\ meta_tasks' = IF monitored
                           THEN Append(meta_tasks,
                                       MonitoringTask(executive_decision, wall_clock))
                           ELSE meta_tasks
          /\ UNCHANGED metacognitive_beliefs
          /\ decision_history' =
               IF formed
               THEN Append(decision_history,
                           [decision_id |-> g,
                            chosen_strategy |-> executive_decision.chosen_strategy])
               ELSE decision_history
          /\ goals' = [goals EXCEPT ![g].pc = "execute",
                                    ![g].executive_decision = executive_decision]
    /\ UNCHANGED <<components, current_integration_level, learning_metrics,
                   processing_history_len>>
    /\ UNCHANGED <<wmVars, strategy_performance>>
    /\ UNCHANGED <<attnVars, memVars, kernelVars, clockVars, fbVars, emoVars, modeVars, learnVars,
                   probeVars>>

\* process_goal_neural from the end of the sleep to its return: the simulated
\* execution, the learning stage (process_task_outcome,
\* update_strategy_performance, optimize_neural_connections), the result and
\* the history.  A raise of _create_processing_result reaches the except
\* clause of process_goal_neural.
GoalFinish(g) ==
    /\ goals[g].pc = "execute"
    /\ \E execution_result \in
              { ExecuteWithNeuralMonitoring(goals[g].executive_decision,
                                            goals[g].emotional_context,
                                            goals[g].processing_mode,
                                            current_integration_level,
                                            "execute" \in goals[g].faults) } :
       \E result_quality \in
              \* process_task_outcome, line 654; _neural_learning_integration, line 735
              { IF execution_result.quality # NoQuality THEN execution_result.quality
                ELSE IF execution_result.success THEN 500 ELSE 100 } :
       \E stored \in
              { IF components.emotional_system /\ "learning" \notin goals[g].faults
                THEN StoreExperienceOp(MemoryNow, g, goals[g].user_goal, "general",
                                       result_quality, execution_result.success,
                                       execution_result.execution_time,
                                       goals[g].emotional_context.emotional_weight,
                                       goals[g].emotional_context.threat_level, mem_now,
                                       MaxEpisodic)
                ELSE MemoryNow } :
       LET goal == goals[g]
           faults == goal.faults
           emotional_context == goal.emotional_context
           executive_decision == goal.executive_decision
           success == execution_result.success
           learning == "learning" \notin faults
           emotional_learning == learning /\ components.emotional_system
           executive_learning == learning /\ components.executive_controller
           reward == CalculateReward(execution_result, emotional_context)
           impact_severity == IF ~success THEN Milli - result_quality ELSE 0
           success_metric == result_quality
           level == IF learning
                    THEN OptimizeIntegrationLevel(current_integration_level, success_metric)
                    ELSE current_integration_level
           returned == "result" \notin faults
       IN /\ SetMemory(stored)
          /\ IF emotional_learning
             THEN /\ mem_stores' = mem_stores + 1
                  /\ reward_history_len' = Min(reward_history_len + 1, 1000)
                  /\ learned_threats' = LearnFromOutcome(learned_threats, goal.user_goal,
                                                         success, impact_severity)
                  /\ expected_rewards' =
                       UpdateExpectations(expected_rewards,
                                          ExtractTaskPattern(goal.user_goal), reward)
             ELSE UNCHANGED <<mem_stores, reward_history_len, learned_threats,
                              expected_rewards>>
          /\ strategy_performance' =
               IF executive_learning
               THEN UpdateStrategyPerformance(strategy_performance, decision_history, g,
                                              success, execution_result.has_metrics,
                                              execution_result.quality)
               ELSE strategy_performance
          /\ current_integration_level' = level
          /\ active_loops' = IF learning
                             THEN OptimizeFeedbackEfficiency(active_loops, success_metric)
                             ELSE active_loops
          /\ learning_metrics' =
               [learning_metrics EXCEPT
                  !.adaptation_events =
                      @ + (IF level # current_integration_level THEN 1 ELSE 0),
                  !.total_goals_processed = @ + (IF returned THEN 1 ELSE 0),
                  !.successful_integrations =
                      @ + (IF returned /\ success THEN 1 ELSE 0)]
          /\ processing_history_len' = processing_history_len + (IF returned THEN 1 ELSE 0)
          /\ goals' = [goals EXCEPT
                ![g].pc = "returned",
                ![g].result =
                    IF returned
                    THEN CreateProcessingResult(goal.processing_mode, level,
                                                executive_decision, emotional_context,
                                                execution_result)
                    ELSE OnGoalException(g, goal.user_goal, level)]
    /\ UNCHANGED <<components, emotional_history_len, current_emotional_state, mem_now>>
    /\ UNCHANGED <<wmVars, decision_history,
                   monitoring_history_len, metaVars, conflict_history_len>>
    /\ UNCHANGED <<fb_tasks, fb_metrics, loop_history_len, last_pass>>
    /\ UNCHANGED <<attnVars, kernelVars, clockVars, modeVars, learnVars,
                   probeVars>>

GoalStep == \E g \in 1..Len(goals) : GoalFuse(g) \/ GoalFinish(g)

NextGoal == InitializeNeuralSystems \/ GoalBegin \/ GoalStep

-----------------------------------------------------------------------------
(***************************************************************************)
(* The mode selection on drawn inputs: a vitals state (a kernel or none, a *)
(* reading, a check that fails) and an emotional context.                  *)
(***************************************************************************)

NoMode == "none"

\* the emotional contexts drawn: every threat level, and arousal, confidence
\* and emotional weight below, at and above the thresholds of the selection
ModeContexts ==
    [threat_level : SAFE..CRITICAL, emotional_weight : {500, 600, 601},
     confidence : {300, 400, 401}, valence : {0}, arousal : {500, 600, 601},
     state : {"neutral"}]

\* the vitals states drawn
ModeVitals ==
    [has_kernel : BOOLEAN, reading : VitalReadings,
     check : {"ok", "sampling", "status", "foundation"}]

InitMode ==
    /\ mode_input \in [vitals : ModeVitals, emotional_context : ModeContexts]
    /\ mode_output = NoMode

\* _check_neural_foundation and _determine_processing_mode on the input
SelectMode ==
    /\ mode_output = NoMode
    /\ LET v == mode_input.vitals
           foundation == CheckNeuralFoundation(v.has_kernel, v.reading,
                                               v.check = "sampling", v.check = "status",
                                               v.check = "foundation")
           selected == DetermineProcessingMode(foundation.foundation_stable,
                                               mode_input.emotional_context, FALSE)
       IN /\ mode_output' = selected.mode
          /\ learning_metrics' =
               [learning_metrics EXCEPT
                  !.emergency_activations =
                      @ + (IF selected.emergency_activation THEN 1 ELSE 0)]
          /\ health_history_len' = IF foundation.recorded
                                   THEN AppendHistory(health_history_len)
                                   ELSE health_history_len
    /\ UNCHANGED <<mode_input, learnVars, probeVars>>
    /\ UNCHANGED <<always_running, monitoring_task, start_time, kernel_stats, mon_tasks,
                   emergency_log_len, last_fault, prev_fault, stop_waiters, stop_outcome,
                   calls, last_call, call_kinds>>
    /\ UNCHANGED <<components, current_integration_level, processing_history_len, goals>>
    /\ UNCHANGED <<attnVars, memVars, clockVars, fbVars, emoVars, execVars>>

NextMode == SelectMode

-----------------------------------------------------------------------------
NextMem == StoreExperience \/ AdvanceDay

NoProbe == "none"

\* ThreatDetector.__init__: nothing is learned
InitThreatDetector == learned_threats = EmptyMap

InitIdle ==
    /\ learn_calls = <<>> /\ learn_base = EmptyMap
    /\ probe_input = NoProbe /\ probe_output = NoProbe

InitCore == InitAttention /\ InitMemory /\ InitKernel /\ InitGoal /\ InitIdle

InitProgram == InitCore /\ InitFeedback /\ InitWorkingMemory /\ InitThreatDetector

InitAll == InitProgram /\ mode_input = NoMode /\ mode_output = NoMode

SpecAttn == InitAll /\ [][NextAttn]_vars

SpecRounds == InitAll /\ [][NextRounds]_vars

SpecMem == InitAll /\ [][NextMem]_vars

NextWide == StoreWide

SpecWide == InitAll /\ [][NextWide]_vars

SpecKernel == InitAll /\ [][NextKernel]_vars

SpecFeedback == InitAll /\ [][NextFeedback]_vars

SpecGoal == InitAll /\ [][NextGoal]_vars

\* The goal calls with the monitoring task of the kernel and the feedback-
\* management task running beside them.  start_neural_kernel and
\* initialize_neural_systems have returned and the three components are set.
InitPipeline ==
    /\ InitAttention /\ InitMemory /\ InitWorkingMemory /\ InitThreatDetector /\ InitIdle
    /\ mode_input = NoMode /\ mode_output = NoMode
    /\ always_running = TRUE
    /\ monitoring_task = 1
    /\ start_time = 0
    /\ mon_tasks = <<[pc |-> "new", cancelling |-> FALSE, timer |-> 0, pending |-> <<>>]>>
    /\ kernel_stats = [total_checks |-> 0, emergency_activations |-> 0,
                       last_status |-> "healthy"]
    /\ health_history_len = 0 /\ emergency_log_len = 0
    /\ last_fault = "none" /\ prev_fault = "none"
    /\ stop_waiters = <<>> /\ stop_outcome = "none"
    /\ calls = 2 /\ last_call = "initialize" /\ call_kinds = {StartKind, "initialize"}
    /\ components = [neural_kernel |-> TRUE, emotional_system |-> TRUE,
                     executive_controller |-> TRUE]
    /\ fb_tasks = <<[pc |-> "new", timer |-> 0, has_systems |-> TRUE]>>
    /\ active_loops = StandardLoops
    /\ fb_metrics = [total_feedback_cycles |-> 0, successful_adaptations |-> 0,
                     system_improvements |-> 0]
    /\ loop_history_len = 0
    /\ last_pass = [executed |-> {}, failed |-> {}, at |-> NoTime]
    /\ wall_clock = 0 /\ ticks = 0
    /\ current_integration_level = BASIC
    /\ learning_metrics = [total_goals_processed |-> 0, successful_integrations |-> 0,
                           emergency_activations |-> 0, adaptation_events |-> 0]
    /\ processing_history_len = 0
    /\ goals = <<>>
    /\ emotional_history_len = 0
    /\ current_emotional_state = "neutral"
    /\ reward_history_len = 0
    /\ expected_rewards = EmptyMap
    /\ decision_history = <<>>
    /\ strategy_performance = EmptyMap
    /\ monitoring_history_len = 0
    /\ monitoring_active = FALSE
    /\ meta_tasks = <<>>
    /\ metacognitive_beliefs = [strategy_effectiveness |-> EmptyMap,
                                confidence_calibration |-> 0]
    /\ conflict_history_len = 0

\* one goal call, made before the first second has passed; no stage raises
QuietBegin == Len(goals) = 0 /\ ticks = 0 /\ GoalBegin /\ goals'[Len(goals')].faults = {}

\* the iterations of the monitoring loop in which nothing raises and no vital
\* is critical
QuietMonitor == MonitorStep /\ last_fault' = "none" /\ emergency_log_len' = 0

NextPipeline == QuietBegin \/ GoalStep \/ FeedbackStep \/ QuietMonitor \/ Tick

SpecPipeline == InitPipeline /\ [][NextPipeline]_vars

InitModeAll == InitProgram /\ InitMode

InitLoopsAll ==
    /\ InitCore /\ InitLoops /\ InitWorkingMemory /\ InitThreatDetector
    /\ mode_input = NoMode /\ mode_output = NoMode

InitWMAll ==
    /\ InitCore /\ InitFeedback /\ InitFilledWorkingMemory /\ InitThreatDetector
    /\ mode_input = NoMode /\ mode_output = NoMode

SpecWM == InitWMAll /\ [][NextWM]_vars

-----------------------------------------------------------------------------
(***************************************************************************)
(* Concurrent learning.  process_task_outcome is a coroutine; several of   *)
(* them created together (asyncio.gather, create_task) are resumed by the  *)
(* event loop one at a time and a coroutine gives the loop back only at an *)
(* await that suspends.  learn_from_outcome has no await in its body: from *)
(* its first line to its return it runs without another call in between.  *)
(***************************************************************************)

MaxLearnCalls == 3      \* learn_from_outcome calls created in one behaviour

LearnTexts == {DescDeleteData, DescAnalyzeCreate}

\* success and impact_severity as process_task_outcome passes them: severity
\* 1 - result_quality of a failure, 0.0 of a success
LearnOutcomes ==
    { [was_successful |-> TRUE, impact_severity |-> 0],
      [was_successful |-> FALSE, impact_severity |-> 1000],
      [was_successful |-> FALSE, impact_severity |-> 600],
      [was_successful |-> FALSE, impact_severity |-> 500] }

\* n failures of severity 1.0 of one description, learned one after the other
RECURSIVE LearnMany(_, _, _)
LearnMany(learned, task_description, n) ==
    IF n = 0 THEN learned
    ELSE LearnMany(LearnFromOutcome(learned, task_description, FALSE, 1000),
                   task_description, n - 1)

\* the weights the calls find: none, or those of words that failed nine or
\* ten times, which stand at 4.5 and at the cap
LearnedStarts == { LearnMany(EmptyMap, DescDeleteData, n) : n \in {0, 9, 10} }

InitLearn ==
    /\ learned_threats \in LearnedStarts
    /\ learn_base = learned_threats
    /\ learn_calls = <<>>

\* a process_task_outcome coroutine is created; it has not reached
\* learn_from_outcome yet
LearnSpawn ==
    /\ Len(learn_calls) < MaxLearnCalls
    /\ \E task_description \in LearnTexts, outcome \in LearnOutcomes :
          learn_calls' = Append(learn_calls,
                [task_description |-> task_description,
                 was_successful |-> outcome.was_successful,
                 impact_severity |-> outcome.impact_severity,
                 pc |-> "pending"])
    /\ UNCHANGED <<learn_base, probeVars>>
    /\ UNCHANGED <<attnVars, memVars, kernelVars, clockVars, fbVars, insVars, emoVars,
                   execVars, modeVars>>

\* the event loop resumes call i, which runs learn_from_outcome to its return
LearnRun(i) ==
    /\ learn_calls[i].pc = "pending"
    /\ learned_threats' = LearnFromOutcome(learned_threats, learn_calls[i].task_description,
                                           learn_calls[i].was_successful,
                                           learn_calls[i].impact_severity)
    /\ learn_calls' = [learn_calls EXCEPT ![i].pc = "done"]
    /\ UNCHANGED <<emotional_history_len, current_emotional_state, reward_history_len,
                   expected_rewards>>
    /\ UNCHANGED <<learn_base, probeVars>>
    /\ UNCHANGED <<attnVars, memVars, kernelVars, clockVars, fbVars, insVars, execVars,
                   modeVars>>

LearnStep == \E i \in 1..Len(learn_calls) : LearnRun(i)

NextLearn == LearnSpawn \/ LearnStep

InitLearnAll ==
    /\ InitAttention /\ InitMemory /\ InitKernel /\ InitGoal /\ InitFeedback
    /\ InitWorkingMemory /\ InitLearn
    /\ probe_input = NoProbe /\ probe_output = NoProbe
    /\ mode_input = NoMode /\ mode_output = NoMode

SpecLearn == InitLearnAll /\ [][NextLearn]_vars

-----------------------------------------------------------------------------
(***************************************************************************)
(* Threat assessments between learning calls: assess_threat reads the      *)
(* weights that the learn_from_outcome calls before it have left.          *)
(***************************************************************************)

MaxAssess == 3          \* assess_threat calls observed in one behaviour

\* descriptions of one length with no, one ("rm ") and two ("rm ", "key")
\* dangerous keywords; "there" is their only word that can be learned
DescDoCat ==
    <<"d", "o", " ", "m", "y", " ", "c", "a", "t", " ", "t", "h", "e", "r", "e">>
DescRmCat ==
    <<"r", "m", " ", "m", "y", " ", "c", "a", "t", " ", "t", "h", "e", "r", "e">>
DescRmKey ==
    <<"r", "m", " ", "m", "y", " ", "k", "e", "y", " ", "t", "h", "e", "r", "e">>

ThreatTexts == {DescDoCat, DescRmCat, DescRmKey}

ThreatTypes == {"code", "creative"}

InitThreat ==
    /\ learned_threats = EmptyMap
    /\ learn_base = EmptyMap
    /\ learn_calls = <<>>
    /\ probe_input = NoProbe
    /\ probe_output = {}

\* assess_threat, lines 106-124: detected_patterns of assessment_details, the
\* dangerous keywords and the learned tokens found in the description
DetectedPatterns(task_description, learned) ==
    LET description_lower == Lower(task_description)
    IN [matches |-> UNION { { <<category, pattern>> : pattern \in
                                { q \in ThreatPatterns[category] :
                                     IsSubstring(q, description_lower) } } :
                            category \in SeqToSet(ThreatCategories) },
        learned |-> { token \in DOMAIN learned : IsSubstring(token, description_lower) }]

\* assess_threat(task_description, task_type): the call and its answer
AssessThreatCall ==
    /\ Cardinality(probe_output) < MaxAssess
    /\ \E task_description \in ThreatTexts, task_type \in ThreatTypes :
          \E assessment \in {AssessThreat(task_description, task_type, learned_threats, FALSE)},
             detected_patterns \in {DetectedPatterns(task_description, learned_threats)} :
             probe_output' = probe_output \cup
                 {[task_description |-> task_description, task_type |-> task_type,
                   learned |-> learned_threats,
                   threat_level |-> assessment.threat_level,
                   threat_score |-> assessment.threat_score,
                   detected_patterns |-> detected_patterns]}
    /\ probe_output' # probe_output
    /\ UNCHANGED <<learnVars, probe_input>>
    /\ UNCHANGED <<attnVars, memVars, kernelVars, clockVars, fbVars, insVars, emoVars,
                   execVars, modeVars>>

\* process_task_outcome of a failure of quality 0.0 or of a success: one
\* learn_from_outcome call from its first line to its return
LearnOutcome ==
    /\ Len(learn_calls) < MaxLearnCalls
    /\ \E task_description \in ThreatTexts, was_successful \in BOOLEAN :
          \E impact_severity \in {IF was_successful THEN 0 ELSE 1000} :
             /\ learn_calls' = Append(learn_calls,
                    [task_description |-> task_description, was_successful |-> was_successful,
                     impact_severity |-> impact_severity, pc |-> "done"])
             /\ learned_threats' = LearnFromOutcome(learned_threats, task_description,
                                                    was_successful, impact_severity)
    /\ UNCHANGED <<emotional_history_len, current_emotional_state, reward_history_len,
                   expected_rewards>>
    /\ UNCHANGED <<learn_base, probeVars>>
    /\ UNCHANGED <<attnVars, memVars, kernelVars, clockVars, fbVars, insVars, execVars,
                   modeVars>>

NextThreat == AssessThreatCall \/ LearnOutcome

InitThreatAll ==
    /\ InitAttention /\ InitMemory /\ InitKernel /\ InitGoal /\ InitFeedback
    /\ InitWorkingMemory /\ InitThreat
    /\ mode_input = NoMode /\ mode_output = NoMode

SpecThreat == InitThreatAll /\ [][NextThreat]_vars

-----------------------------------------------------------------------------
(***************************************************************************)
(* ExecutiveController.executive_decision called with several task         *)
(* options.  A call runs to asyncio.gather of the three evaluators, where  *)
(* it suspends, and from there to its return.  probe_input holds the calls *)
(* made, probe_output what the returned calls were given and answered.     *)
(***************************************************************************)

MaxDecisions == 2       \* executive_decision calls in one behaviour

\* the rational evaluator rates TaskA highest, the intuitive one TaskB, the
\* emotional one TaskC and, where TaskC is not offered, TaskA
TaskA ==
    [task_id |-> "task_a", description |-> DescAnalyzeCreate, task_type |-> "general",
     urgency |-> 200, importance |-> 900, complexity |-> 800,
     required_attention |-> 10 * AttnUnit, emotional_weight |-> 200, deadline |-> NoDeadline]

TaskB ==
    [task_id |-> "task_b", description |-> DescRunTest, task_type |-> "qa",
     urgency |-> 900, importance |-> 300, complexity |-> 100,
     required_attention |-> 10 * AttnUnit, emotional_weight |-> 300, deadline |-> NoDeadline]

TaskC ==
    [task_id |-> "task_c", description |-> DescCreateReport, task_type |-> "creative",
     urgency |-> 100, importance |-> 100, complexity |-> 100,
     required_attention |-> 10 * AttnUnit, emotional_weight |-> 900, deadline |-> NoDeadline]

DecisionOptions ==
    { <<>>, <<TaskA>>, <<TaskA, TaskB>>, <<TaskB, TaskC>>, <<TaskA, TaskB, TaskC>> }

\* the context of a call: system_state.stress_level, in thousandths
\* and available_resources when the context has the key
DecisionContexts ==
    { [stress_level |-> 200, available_resources |-> DefaultAvailableResources],
      [stress_level |-> 900, available_resources |-> DefaultAvailableResources],
      [stress_level |-> 200, available_resources |-> 0],
      [stress_level |-> 200, available_resources |-> -50] }

InitDecide ==
    /\ learn_calls = <<>>
    /\ learn_base = EmptyMap
    /\ probe_input = <<>>
    /\ probe_output = {}

\* a resolver that breaks the tie of its sort keys by the number of conflicts
\* it has recorded
ResolveConflictCall_Rotating(history_len, options, context, raises) ==
    [resolved |-> options[(history_len % Len(options)) + 1],
     conflict_type |-> ResolveConflict(options, context, raises).conflict_type,
     conflict_history_len |-> IF ResolveConflict(options, context, raises).recorded
                              THEN Min(history_len + 1, ConflictHistoryMaxLen)
                              ELSE history_len]

\* ConflictResolver.resolve_conflict with the resolver's conflict_history:
\* the option chosen and the length of the history after the call
ResolveConflictCall(history_len, options, context, raises) ==
    [resolved |-> ResolveConflict(options, context, raises).resolved,
     conflict_type |-> ResolveConflict(options, context, raises).conflict_type,
     conflict_history_len |-> IF ResolveConflict(options, context, raises).recorded
                              THEN Min(history_len + 1, ConflictHistoryMaxLen)
                              ELSE history_len]

\* executive_decision from the call to asyncio.gather: the options are loaded
\* into the working memory and attention is allocated
DecideBegin ==
    /\ Len(probe_input) < MaxDecisions
    /\ \E task_options \in DecisionOptions, context \in DecisionContexts,
          faults \in SUBSET Evaluators :
          \E granted \in { AllocateAttentionOp(attention_resource, active_tasks,
                                               attention_history,
                                               SchedulerTasks(task_options), attn_now) } :
             /\ SetWorkingMemory(AddMany(WorkingMemoryNow, "episodic", Len(task_options)))
             /\ attention_resource' = granted.res
             /\ active_tasks' = granted.active
             /\ attention_history' = granted.history
             /\ last_allocations' = [allocations |-> granted.allocations,
                                     order |-> granted.order, exc |-> granted.exc]
             /\ attn_rounds' = attn_rounds + 1
             /\ probe_input' = Append(probe_input,
                   [pc |-> "gather", task_options |-> task_options, context |-> context,
                    faults |-> faults, attention_allocations |-> granted.allocations])
    /\ UNCHANGED <<attn_releases, attn_now, wm_calls, probe_output>>
    /\ UNCHANGED <<decision_history, strategy_performance, monitoring_history_len, metaVars,
                   conflict_history_len>>
    /\ UNCHANGED <<memVars, kernelVars, clockVars, fbVars, insVars, emoVars, modeVars,
                   learnVars>>

\* executive_decision from asyncio.gather to its return
DecideFuse(i) ==
    /\ probe_input[i].pc = "gather"
    /\ LET call == probe_input[i]
           evaluations ==
               << RationalAnalysis(call.task_options, "rational" \in call.faults),
                  IntuitiveAnalysis(call.task_options, "intuitive" \in call.faults),
                  EmotionalAnalysis(call.task_options, "emotional" \in call.faults) >>
           conflict == DetectEvaluationConflicts(evaluations)
           resolution == ResolveConflictCall(conflict_history_len, evaluations,
                                             call.context, FALSE)
           resolved_evaluation == IF conflict THEN resolution.resolved
                                  ELSE IntegrateEvaluations(evaluations)
           executive_decision ==
               FormExecutiveDecision(i, resolved_evaluation, call.attention_allocations)
       IN /\ conflict_history_len' = IF conflict THEN resolution.conflict_history_len
                                     ELSE conflict_history_len
          /\ monitoring_history_len' = monitoring_history_len + 1
          /\ monitoring_active' = TRUE
          /\ meta_tasks' = Append(meta_tasks,
                                  MonitoringTask(executive_decision, wall_clock))
          /\ UNCHANGED metacognitive_beliefs
          /\ decision_history' =
               Append(decision_history,
                      [decision_id |-> i,
                       chosen_strategy |-> executive_decision.chosen_strategy])
          /\ probe_input' = [probe_input EXCEPT ![i].pc = "returned"]
          /\ probe_output' = probe_output \cup
               {[task_options |-> call.task_options, context |-> call.context,
                 faults |-> call.faults, evaluations |-> evaluations,
                 conflict |-> conflict, conflicts_before |-> conflict_history_len,
                 conflict_type |-> IF conflict THEN resolution.conflict_type ELSE "none",
                 resolved_evaluation |-> resolved_evaluation,
                 executive_decision |-> [executive_decision EXCEPT !.decision_id = 0]]}
    /\ UNCHANGED <<wmVars, strategy_performance>>
    /\ UNCHANGED <<attnVars, memVars, kernelVars, clockVars, fbVars, insVars, emoVars,
                   modeVars, learnVars>>

DecideStep == \E i \in 1..Len(probe_input) : DecideFuse(i)

NextDecide == DecideBegin \/ DecideStep

InitDecideAll ==
    /\ InitAttention /\ InitMemory /\ InitKernel /\ InitGoal /\ InitFeedback
    /\ InitWorkingMemory /\ InitThreatDetector /\ InitDecide
    /\ mode_input = NoMode /\ mode_output = NoMode

SpecDecide == InitDecideAll /\ [][NextDecide]_vars

\* The per-decision monitors of MetaCognitiveMonitor alone: start_monitoring
\* is called with drawn decisions and the tasks it creates run.  stop_monitoring
\* has no caller in the repository and is not called here.
MaxMetaTasks == 2       \* start_monitoring calls in one behaviour
MaxStartDelay == 1      \* seconds after which no start_monitoring call is made
MaxMetaFaults == 1      \* polls of one task in which _assess_current_performance raises

\* the clock is followed up to this time
MetaClockEnd == MaxStartDelay * 10 + MaxMonitoringTime + 2 * MetaSleep

MetaDecisions ==
    { [decision_id |-> 1, chosen_strategy |-> "hybrid", confidence |-> 800],
      [decision_id |-> 2, chosen_strategy |-> "conservative", confidence |-> 300] }

\* MetaCognitiveMonitor.start_monitoring
StartMonitoring ==
    /\ Len(meta_tasks) < MaxMetaTasks
    /\ wall_clock <= MaxStartDelay * 10
    /\ \E decision \in MetaDecisions :
          meta_tasks' = Append(meta_tasks, MonitoringTask(decision, wall_clock))
    /\ monitoring_active' = TRUE
    /\ monitoring_history_len' = monitoring_history_len + 1
    /\ UNCHANGED <<wmVars, decision_history, strategy_performance, metacognitive_beliefs,
                   conflict_history_len>>
    /\ UNCHANGED <<attnVars, memVars, kernelVars, clockVars, fbVars, insVars, emoVars,
                   modeVars, learnVars, probeVars>>

\* _continuous_monitoring of task i from one suspension to the next: the
\* check after asyncio.sleep (line 576), the loop condition, the assessment,
\* the intervention (which logs and changes nothing), the beliefs, and
\* asyncio.sleep(1.0).  The first step of a task starts at the top of the loop.
MetaPoll(i) ==
    /\ i \in 1..Len(meta_tasks)
    /\ meta_tasks[i].pc \in {"new", "sleep"}
    /\ meta_tasks[i].timer = 0
    /\ IF \/ meta_tasks[i].pc = "sleep" /\ MonitoringExpired(meta_tasks[i].elapsed_time)
          \/ ~monitoring_active
       THEN /\ meta_tasks' = [meta_tasks EXCEPT ![i].pc = "done"]
            /\ UNCHANGED metacognitive_beliefs
       ELSE \E raises \in BOOLEAN :
               LET context == meta_tasks[i]
                   elapsed_time == ElapsedTime(context.start_time, context.polled,
                                               wall_clock)
                   performance_assessment ==
                       AssessCurrentPerformance(context, wall_clock, raises)
               IN /\ raises => context.assessment_errors < MaxMetaFaults
                  /\ metacognitive_beliefs' =
                       UpdateMetacognitiveBeliefs(metacognitive_beliefs, context,
                                                  performance_assessment)
                  /\ meta_tasks' = [meta_tasks EXCEPT ![i].pc = "sleep",
                                                      ![i].timer = MetaSleep,
                                                      ![i].polled = wall_clock,
                                                      ![i].assessment_errors =
                                                          @ + (IF raises THEN 1 ELSE 0),
                                                      ![i].elapsed_time = elapsed_time]
    /\ UNCHANGED <<wmVars, decision_history, strategy_performance, monitoring_history_len,
                   monitoring_active, conflict_history_len>>
    /\ UNCHANGED <<attnVars, memVars, kernelVars, clockVars, fbVars, insVars, emoVars,
                   modeVars, learnVars, probeVars>>

MetaStep == \E i \in 1..Len(meta_tasks) : MetaPoll(i)

\* a monitoring task that the event loop can resume now
MetaReady(i) == meta_tasks[i].pc \in {"new", "sleep"} /\ meta_tasks[i].timer = 0

\* a second passes.  The event loop resumes a task whose sleep is over before
\* the next second has passed.  The clock is followed while a monitoring task
\* runs or can still be started; past MetaClockEnd the sleeps still run down.
SecondPasses ==
    /\ \A i \in 1..Len(meta_tasks) : ~MetaReady(i)
    /\ \/ wall_clock <= MaxStartDelay * 10
       \/ \E i \in 1..Len(meta_tasks) : meta_tasks[i].pc # "done"
    /\ wall_clock' = Min(wall_clock + 10, MetaClockEnd)
    /\ meta_tasks' = ElapseTimers(meta_tasks, 10)
    /\ UNCHANGED <<wmVars, decision_history, strategy_performance, monitoring_history_len,
                   monitoring_active, metacognitive_beliefs, conflict_history_len>>
    /\ UNCHANGED <<attnVars, memVars, kernelVars, ticks, fbVars, insVars, emoVars,
                   modeVars, learnVars, probeVars>>

NextMeta == StartMonitoring \/ MetaStep \/ SecondPasses

InitMetaAll ==
    /\ InitAttention /\ InitMemory /\ InitKernel /\ InitGoal /\ InitFeedback
    /\ InitWorkingMemory /\ InitThreatDetector
    /\ InitIdle
    /\ mode_input = NoMode /\ mode_output = NoMode

SpecMeta == InitMetaAll /\ [][NextMeta]_vars

\* Time does not stop, and the event loop resumes every task that is ready.
SpecMetaLive ==
    /\ InitMetaAll
    /\ [][NextMeta]_vars
    /\ WF_vars(SecondPasses)
    /\ \A i \in 1..MaxMetaTasks : WF_vars(MetaPoll(i))

\* The goal calls with the monitors their decisions start: a goal is begun
\* within the first MaxStartDelay seconds and no stage of it raises; the awaits
\* of a goal (asyncio.gather, asyncio.sleep(0.1)) are over before the next
\* whole second, so a second passes when no goal call is left to resume.
\* A monitor that start_monitoring created runs its first pass when the goal
\* call that created it suspends, which is before any goal call goes on.
MonitorsHaveStarted == \A i \in 1..Len(meta_tasks) : meta_tasks[i].pc # "new"

SoundBegin ==
    /\ wall_clock <= MaxStartDelay * 10
    /\ MonitorsHaveStarted
    /\ GoalBegin
    /\ goals'[Len(goals')].faults = {}

GoalStepMonitored == MonitorsHaveStarted /\ GoalStep

SecondPassesIdle ==
    /\ \A g \in 1..Len(goals) : goals[g].pc = "returned"
    /\ SecondPasses

NextMonitored == SoundBegin \/ GoalStepMonitored \/ MetaStep \/ SecondPassesIdle

SpecMonitored == InitPipeline /\ [][NextMonitored]_vars

\* _optimize_feedback_efficiency alone, applied outcome after outcome to the
\* standard loops with drawn success metrics.  update_interval is kept to the
\* unit of the model, the products are cut to it.  probe_input holds the
\* success metric of the last call.
SuccessMetrics == {100, 299, 300, 500, 800, 801, 950}

TuneStep ==
    /\ \E success_metric \in SuccessMetrics :
          /\ probe_input' = <<[success_metric |-> success_metric]>>
          /\ active_loops' = OptimizeFeedbackEfficiency(active_loops, success_metric)
    /\ UNCHANGED <<fb_tasks, fb_metrics, loop_history_len, last_pass, probe_output>>
    /\ UNCHANGED <<attnVars, memVars, kernelVars, clockVars, insVars, emoVars, execVars,
                   modeVars, learnVars>>

NextTune == TuneStep

\* The queries of the model's recall_similar_experiences calls
DescRunBigJob ==
    <<"r", "u", "n", " ", "t", "h", "e", " ", "b", "i", "g", " ", "j", "o", "b">>
DescEatNow == <<"e", "a", "t", " ", "n", "o", "w">>

RecallQueries ==
    { [description |-> d, task_type |-> t] :
        d \in {DescRunBigJob, DescEatNow, DescRunTest, DescCreateReport},
        t \in {"general", "qa"} }

\* AdaptiveMemory.recall_similar_experiences with a drawn query: probe_input
\* holds the pattern and type searched for, probe_output the stored
\* experiences (positions) returned; the limit of 10 is above the store's size
RecallCall ==
    /\ \E q \in RecallQueries :
          LET task_pattern == ExtractTaskPattern(q.description)
          IN /\ probe_input' = <<[task_pattern |-> task_pattern, task_type |-> q.task_type]>>
             /\ probe_output' = SeqToSet(FindSimilarExperiences(episodic_memory, 1,
                                                                task_pattern, q.task_type))
    /\ UNCHANGED <<attnVars, memVars, kernelVars, clockVars, fbVars, insVars, emoVars,
                   execVars, modeVars, learnVars>>

\* stores of store_experience and recalls between them
NextRecall == StoreWide \/ RecallCall

SpecRecall == InitDecideAll /\ [][NextRecall]_vars

\* no call has been made: probe_input is empty
SpecTune == InitDecideAll /\ [][NextTune]_vars

\* assess_threat alone, called with drawn arguments between learn_from_outcome
\* calls; a call raises in its body when it is handed None for the
\* description or for the task type.  probe_input holds the last call and
\* what it returned.
AssessAnyCall ==
    /\ \E task_description \in ThreatTexts, task_type \in ThreatTypes, raises \in BOOLEAN :
          \E assessment \in {AssessThreat(task_description, task_type, learned_threats,
                                          raises)} :
             probe_input' = <<[task_description |-> task_description,
                               task_type |-> task_type, raises |-> raises,
                               threat_level |-> assessment.threat_level,
                               threat_score |-> assessment.threat_score]>>
    /\ UNCHANGED <<learnVars, probe_output>>
    /\ UNCHANGED <<attnVars, memVars, kernelVars, clockVars, fbVars, insVars, emoVars,
                   execVars, modeVars>>

NextAssess == AssessAnyCall \/ LearnOutcome

SpecAssess == InitDecideAll /\ [][NextAssess]_vars

\* _calculate_priority alone, called at drawn times for the catalogue's
\* candidates with drawn deadlines: none, and deadlines that are more than a
\* day ahead, within the day, now, and past.  probe_input holds the call, the
\* deadline pressure it computed and the priority it returned.
ProbeDeadlines == {NoDeadline, 3600, 21600, 43200, 86400, 180000}
ProbeTimes == {0, 3600, 21600, 43200, 90000}

PriorityCall ==
    /\ \E candidate \in TaskCatalog, deadline \in ProbeDeadlines, now \in ProbeTimes :
          LET task == [candidate EXCEPT !.deadline = deadline]
          IN probe_input' = <<[task |-> task, now |-> now,
                               deadline_pressure |-> DeadlinePressure(task, now),
                               priority |-> CalculatePriority(task, now)]>>
    /\ UNCHANGED probe_output
    /\ UNCHANGED <<attnVars, memVars, kernelVars, clockVars, fbVars, insVars, emoVars,
                   execVars, modeVars, learnVars>>

NextPriority == PriorityCall

SpecPriority == InitDecideAll /\ [][NextPriority]_vars

\* check_system_vitals alone, called with drawn readings: for every vital a
\* value under, just under, at and above its warning threshold and just under
\* and at its critical one; or a psutil call raises.  probe_input holds the
\* last call and the status it returned.
ProbeReadings ==
    [cpu_usage : {50, 79, 80, 94, 95}, memory_usage : {50, 84, 85, 95},
     disk_usage : {50, 85, 94, 95}, process_count : {100, 499, 500, 1000}]

CheckVitalsCall ==
    /\ health_history_len < MaxChecks
    /\ \E reading \in ProbeReadings, sampling_raises \in BOOLEAN :
          LET health == CheckSystemVitals(reading, sampling_raises)
          IN /\ probe_input' = <<[reading |-> reading, sampling_raises |-> sampling_raises,
                                  overall_status |-> health.overall_status]>>
             /\ health_history_len' = IF health.recorded
                                      THEN AppendHistory(health_history_len)
                                      ELSE health_history_len
    /\ UNCHANGED <<always_running, monitoring_task, start_time, kernel_stats, mon_tasks,
                   emergency_log_len, last_fault, prev_fault, stop_waiters, stop_outcome,
                   calls, last_call, call_kinds>>
    /\ UNCHANGED probe_output
    /\ UNCHANGED <<attnVars, memVars, clockVars, fbVars, insVars, emoVars, execVars,
                   modeVars, learnVars>>

NextVitals == CheckVitalsCall

SpecVitals == InitDecideAll /\ [][NextVitals]_vars

NextLoops == InitializeNeuralSystems \/ FeedbackStep \/ Tick

SpecLoops == InitLoopsAll /\ [][NextLoops]_vars

SpecMode == InitModeAll /\ [][NextMode]_vars

\* The event loop resumes every task that is ready, and every sleep ends.
SpecKernelLive ==
    /\ InitAll
    /\ [][NextKernel]_vars
    /\ \A i \in 1..MaxMonitorTasks : WF_vars(MonitorTaskStep(i))
    /\ WF_vars(TimePass)

-----------------------------------------------------------------------------
(***************************************************************************)
(* NeuralKernel: the claims.                                               *)
(***************************************************************************)

\* a start_neural_kernel call made while the kernel runs changes nothing
StartWhileRunningIsNoop ==
    (calls' = calls + 1 /\ last_call' = "start_running")
        => /\ always_running'
           /\ UNCHANGED <<start_time, monitoring_task, mon_tasks, kernel_stats>>

\* a stop_neural_kernel call made right after one that returned, or before any
\* start, returns without an error and the kernel is not running
StopAgainIsQuiet ==
    (calls' = calls + 1 /\ last_call' = "stop_again")
        => /\ ~always_running'
           /\ stop_waiters' = <<>>
           /\ stop_outcome' = "returned"

\* C5: calling start on a kernel that is running is a no-operation, and calling
\* stop twice in a row or before any start completes without an error and
\* leaves the kernel not running.
C5_StartStopIdempotent == [][StartWhileRunningIsNoop /\ StopAgainIsQuiet]_vars

C5_Witness ==
    /\ {"start_running", "stop_again"} \subseteq call_kinds
    /\ last_call = "stop_again"
    /\ monitoring_task # 0
    /\ mon_tasks[monitoring_task].pc = "cancelled"
    /\ stop_outcome = "returned"

\* stop_neural_kernel has returned and start_neural_kernel was not called since
StopHasReturned ==
    /\ last_call \in {"stop", "stop_again"}
    /\ stop_waiters = <<>>

\* C6: once the stop of a kernel that was started has returned, and until the
\* kernel is started again, the monitor takes no further vital sample and no
\* feedback loop fires.
C6_AllLoopsExitedAfterStop ==
    [][(StopHasReturned /\ monitoring_task # 0 /\ calls' = calls)
          => /\ kernel_stats'.total_checks = kernel_stats.total_checks
             /\ health_history_len' = health_history_len
             /\ fb_metrics'.total_feedback_cycles = fb_metrics.total_feedback_cycles]_vars

\* an iteration of the monitoring loop had an error raised in it
IterationFailed == last_fault # "none"

\* the i-th monitoring task ends in this step
TaskEnds(i) ==
    /\ i \in 1..Len(mon_tasks)
    /\ mon_tasks[i].pc \notin {"done", "cancelled"}
    /\ mon_tasks'[i].pc \in {"done", "cancelled"}

\* C7: while the kernel is running no error raised in a monitoring iteration
\* ends the loop: after a failed iteration a later iteration is executed, and a
\* monitoring task ends only when stop was called.
C7_MonitorLoopSurvives ==
    /\ \A n \in 1..(MaxChecks - 1) :
          (IterationFailed /\ always_running /\ kernel_stats.total_checks = n)
              ~> (kernel_stats.total_checks > n \/ ~always_running)
    /\ [][\A i \in 1..MaxMonitorTasks :
             TaskEnds(i) => (mon_tasks[i].cancelling \/ ~always_running)]_vars

C7_Witness ==
    /\ always_running
    /\ prev_fault = "activate"
    /\ kernel_stats.total_checks >= 2
    /\ \E i \in 1..Len(mon_tasks) : mon_tasks[i].pc = "sleep"

\* C8: when the sampling of a vital raises, check_system_vitals returns an
\* EMERGENCY snapshot instead of raising, and the monitoring loop records
\* EMERGENCY as the last status, activates the emergency handler and
\* increments the activation counter.
C8_SamplingErrorIsEmergency ==
    /\ [](\A reading \in VitalReadings :
            CheckSystemVitals(reading, TRUE).overall_status = "emergency")
    /\ [][(kernel_stats'.total_checks = kernel_stats.total_checks + 1
            /\ last_fault' = "sampling")
           => /\ kernel_stats'.last_status = "emergency"
              /\ emergency_log_len' = emergency_log_len + 1
              /\ kernel_stats'.emergency_activations
                     = kernel_stats.emergency_activations + 1
              /\ \E i \in 1..Len(mon_tasks) :
                     /\ mon_tasks[i].timer = 0
                     /\ mon_tasks'[i].pc = "sleep"
                     /\ mon_tasks'[i].timer = MonitorSleep]_vars

C8_Witness ==
    /\ last_fault = "sampling"
    /\ kernel_stats.last_status = "emergency"
    /\ kernel_stats.emergency_activations >= 1
    /\ emergency_log_len >= 1

-----------------------------------------------------------------------------
\* C4: after every store_experience call the episodic store holds at most
\* max_episodic_memories records.
C4_StoreBounded == Len(episodic_memory) <= MaxEpisodic

\* the store was full, and a further store (one that reinforced a record) returned
C4_Witness ==
    /\ mem_stores = MaxStores
    /\ memory_stats.memory_consolidations >= 1
    /\ Len(episodic_memory) = MaxEpisodic
    /\ \E i \in 1..Len(episodic_memory) : episodic_memory[i].reinforcement_count > 1

-----------------------------------------------------------------------------
\* the goals whose process_goal_neural call has returned
ReturnedGoals == { g \in 1..Len(goals) : goals[g].pc = "returned" }

\* the Decision the call of goal g returned
ReturnedDecision(g) == goals[g].result.executive_decision

\* executive_decision was entered for goal g: the mode was not EMERGENCY, an
\* executive controller was set and nothing raised before the call
EngineRan(g) ==
    /\ goals[g].processing_mode # "emergency"
    /\ goals[g].has_controller
    /\ "cognitive" \notin goals[g].faults

\* the stages the engine runs that have their own except clause
AbsorbedStages == {"options", "scheduling"} \cup Evaluators

\* C1: process_goal_neural never lets an exception out: whatever stage raises
\* and whatever component is missing, the call returns a result, and the
\* Decision of the result has a confidence between 0 and 1.
C1_NeverRaises ==
    \A g \in ReturnedGoals :
       /\ ~goals[g].result.raised
       /\ ReturnedDecision(g).kind \in {"exec", "fallback", "emergency"}
       /\ ReturnedDecision(g).confidence \in 0..Milli

\* a stage raised outside the except clauses of the stages while a component
\* was missing, and the call returned the error result
C1_Witness ==
    /\ \E k \in DOMAIN components : ~components[k]
    /\ \E g \in ReturnedGoals :
          /\ "result" \in goals[g].faults
          /\ goals[g].result.error
          /\ ~goals[g].result.raised
          /\ ReturnedDecision(g).confidence = 300

\* the confidence of the fused Decision of goal g: that of the first of the
\* evaluators of the highest confidence, a failed evaluator having 0.1
FusedConfidence(g) ==
    LET f == goals[g].faults
    IN IF "options" \in f THEN 100
       ELSE IF "rational" \notin f THEN 800
       ELSE IF "emotional" \notin f THEN 700
       ELSE IF "intuitive" \notin f THEN 600
       ELSE 100

StableVitals(v) ==
    /\ v.has_kernel
    /\ v.check = "ok"
    /\ OverallStatus(v.reading) \in {"healthy", "warning"}

\* the mode of the table for vitals v and emotional context c
TableMode(v, c) ==
    IF c.threat_level \in {HIGH, CRITICAL} \/ ~StableVitals(v) THEN "emergency"
    ELSE IF c.arousal > 600 THEN "intuitive"
    ELSE IF c.confidence > 400 \/ c.emotional_weight > 600 THEN "analytical"
    ELSE "maintenance"

\* C9: for every vitals state and emotional context the mode selected is
\* EMERGENCY iff the threat level is HIGH or CRITICAL or the vitals are not
\* stable, otherwise INTUITIVE iff arousal > 0.6, otherwise ANALYTICAL iff
\* confidence > 0.4 or emotional weight > 0.6, otherwise MAINTENANCE.
C9_ModeTable ==
    mode_output # NoMode
    => mode_output = TableMode(mode_input.vitals, mode_input.emotional_context)

\* a failed vitals check under a SAFE threat selected EMERGENCY and counted the
\* activation
C9_Witness ==
    /\ mode_output = "emergency"
    /\ mode_input.vitals.has_kernel
    /\ mode_input.vitals.check = "status"
    /\ OverallStatus(mode_input.vitals.reading) = "healthy"
    /\ mode_input.emotional_context.threat_level = SAFE
    /\ learning_metrics.emergency_activations = 1

\* C10: whenever the mode chosen for a goal is EMERGENCY, the Decision the
\* call returns with its processing result has strategy CONSERVATIVE and
\* confidence 0.6, whatever the executive controller, the memory and the
\* attention pool hold.
C10_EmergencyIsConservative ==
    \A g \in ReturnedGoals :
       (goals[g].processing_mode = "emergency" /\ ~goals[g].result.error)
       => /\ goals[g].result.processing_mode = "emergency"
          /\ ReturnedDecision(g).chosen_strategy = "conservative"
          /\ ReturnedDecision(g).confidence = 600

\* 'sudo rm -rf /' was assessed CRITICAL and answered in EMERGENCY mode after
\* an earlier goal had taken attention from the pool and left an experience
C10_Witness ==
    \E g \in ReturnedGoals :
       /\ goals[g].user_goal = DescSudoRm
       /\ goals[g].emotional_context.threat_level = CRITICAL
       /\ goals[g].result.processing_mode = "emergency"
       /\ ReturnedDecision(g).chosen_strategy = "conservative"
       /\ ReturnedDecision(g).confidence = 600
       /\ attention_resource.allocated > 0
       /\ Len(episodic_memory) >= 2

-----------------------------------------------------------------------------
\* a feedback-management task makes a pass of manage_feedback_loops in this step
PassStep ==
    /\ Len(fb_tasks') = Len(fb_tasks)
    /\ \E j \in 1..Len(fb_tasks) :
          /\ fb_tasks[j].timer = 0
          /\ fb_tasks'[j].pc = "sleep"
          /\ fb_tasks'[j].timer = FeedbackSleep

\* loop id is active and its interval has elapsed at the time of the pass
IntervalElapsed(id) ==
    /\ active_loops[id].active
    /\ (wall_clock - active_loops[id].last_update) * IntervalScale
           >= active_loops[id].update_interval

ElapsedLoops == { id \in DOMAIN active_loops : IntervalElapsed(id) }

\* C11: at every pass of the feedback manager an active loop fires iff the time
\* since its last_update is at least its update_interval; a loop that fires has
\* its last_update set to the time of the pass and is counted as a cycle, and a
\* loop that does not fire, an inactive one included, is left as it was.
C11_FiresIffDue ==
    [][PassStep
         => /\ last_pass'.executed = ElapsedLoops
            /\ last_pass'.at = wall_clock
            /\ \A id \in DOMAIN active_loops :
                  IF IntervalElapsed(id)
                  THEN active_loops'[id] =
                           [active_loops[id] EXCEPT !.last_update = wall_clock]
                  ELSE active_loops'[id] = active_loops[id]
            /\ fb_metrics'.total_feedback_cycles =
                   fb_metrics.total_feedback_cycles + Cardinality(ElapsedLoops)]_vars

\* a pass made exactly 60 s after construction fired the tactical loop, and
\* neither the deactivated immediate loop nor the strategic loop, whose hour
\* had not passed
C11_Witness ==
    /\ last_pass.at = 600
    /\ last_pass.executed = {"emotional_to_executive"}
    /\ ~active_loops["neural_to_emotional"].active
    /\ active_loops["neural_to_emotional"].last_update = 0
    /\ active_loops["integrated_learning"].active
    /\ active_loops["emotional_to_executive"].last_update = 600
    /\ fb_metrics.total_feedback_cycles = 1

\* C12: when the execution of a feedback loop raises in a pass, every other
\* loop whose interval has elapsed is still executed in that pass and recorded
\* in the loop history, and the feedback-management task goes on to its sleep,
\* from which it makes its next pass.
C12_FailureIsContained ==
    [][(PassStep /\ last_pass'.failed # {})
         => /\ \A id \in ElapsedLoops \ last_pass'.failed :
                  /\ id \in last_pass'.executed
                  /\ active_loops'[id].last_update = wall_clock
            /\ loop_history_len' =
                   Min(loop_history_len + Cardinality(ElapsedLoops \ last_pass'.failed),
                       MaxHistory)
            /\ \A j \in 1..Len(fb_tasks') : fb_tasks'[j].pc \in {"new", "sleep"}]_vars

\* in a pass at 60 s two loops were due and one of them raised; the other was
\* executed, and ten seconds later the manager made its next pass
C12_Witness ==
    /\ fb_metrics.total_feedback_cycles = 3
    /\ loop_history_len = 2
    /\ active_loops["emotional_to_executive"].last_update = 600
    /\ last_pass.at = 610
    /\ last_pass.executed = {"neural_to_emotional"}
    /\ last_pass.failed = {}

-----------------------------------------------------------------------------
\* the three buffers of the working memory
Buffers ==
    [phonological |-> phonological_loop, visuospatial |-> visuospatial_sketchpad,
     episodic |-> episodic_buffer]

\* an add_item call returns in this step
AddItemStep == items_processed' = items_processed + 1

\* C13: the occupancy of each of the three working-memory buffers never
\* exceeds the capacity; an add_item call changes one buffer only, appending
\* the item and, when that buffer was full, removing exactly its oldest item;
\* the load ratio occupied / (capacity * 3) stays within [0, 1].
C13_BuffersBounded ==
    /\ [](/\ \A b \in MemoryTypes : Len(Buffers[b]) <= WorkingMemoryCapacity
          /\ Len(phonological_loop) + Len(visuospatial_sketchpad) + Len(episodic_buffer)
                 <= WorkingMemoryCapacity * 3
          /\ GetCognitiveLoad(WorkingMemoryNow) \in 0..Milli)
    /\ [][AddItemStep
            => \E b \in MemoryTypes :
                  /\ Buffers'[b] = IF Len(Buffers[b]) = WorkingMemoryCapacity
                                   THEN Append(Tail(Buffers[b]), items_processed')
                                   ELSE Append(Buffers[b], items_processed')
                  /\ \A other \in MemoryTypes \ {b} : Buffers'[other] = Buffers[other]]_vars

\* the three buffers are full, and the last call put its item into the full
\* visuospatial buffer, whose oldest item, the eighth processed, is gone
C13_Witness ==
    /\ \A b \in MemoryTypes : Len(Buffers[b]) = WorkingMemoryCapacity
    /\ GetCognitiveLoad(WorkingMemoryNow) = Milli
    /\ wm_calls >= 1
    /\ visuospatial_sketchpad[WorkingMemoryCapacity] = items_processed
    /\ visuospatial_sketchpad[1] = WorkingMemoryCapacity + 2
    /\ phonological_loop[1] = 1

-----------------------------------------------------------------------------
(***************************************************************************)
(* Concurrent learning calls                                               *)
(***************************************************************************)

DoneCalls == { i \in 1..Len(learn_calls) : learn_calls[i].pc = "done" }

\* every order in which the calls of S can follow one another
Orders(S) ==
    { order \in [1..Cardinality(S) -> S] :
        \A a, b \in 1..Cardinality(S) : a # b => order[a] # order[b] }

CallWords(call) == SplitBlank(Lower(call.task_description), 1, <<>>)

WeightOf(learned, token) ==
    IF token \in DOMAIN learned THEN [known |-> TRUE, weight |-> learned[token]]
    ELSE [known |-> FALSE, weight |-> 0]

RECURSIVE Decayed(_, _)
Decayed(weight, n) == IF n = 0 THEN weight ELSE Decayed((weight * 95) \div 100, n - 1)

\* what one call alone does to one token: an increment of severity / 2 for
\* each time a failed description holds the token, a decay of 5% for each
\* time a successful one holds a known token, and the limit of 5.0
TokenAfterCall(entry, token, call) ==
    LET n == Cardinality({ k \in 1..Len(CallWords(call)) : CallWords(call)[k] = token })
        increment == (call.impact_severity * (ScoreUnit \div Milli)) \div 2
        raw == IF ~call.was_successful /\ call.impact_severity > 500 /\ n > 0 /\ Len(token) > 3
               THEN [known |-> TRUE, weight |-> entry.weight + n * increment]
               ELSE IF call.was_successful /\ entry.known
               THEN [known |-> TRUE, weight |-> Decayed(entry.weight, n)]
               ELSE entry
    IN [raw EXCEPT !.weight = IF @ > 5 * ScoreUnit THEN 5 * ScoreUnit ELSE @]

RECURSIVE TokenAfterCalls(_, _, _, _)
TokenAfterCalls(entry, token, order, k) ==
    IF k > Len(order) THEN entry
    ELSE TokenAfterCalls(TokenAfterCall(entry, token, learn_calls[order[k]]), token, order, k + 1)

LearnTokens ==
    DOMAIN learn_base \cup DOMAIN learned_threats
    \cup UNION { SeqToSet(CallWords(learn_calls[i])) : i \in 1..Len(learn_calls) }

WordData == <<"d", "a", "t", "a">>

\* C14: at every moment of an interleaving of learn_from_outcome calls, the
\* weight of every token is what the calls that have run give it when they
\* are applied to the token one after another in some order, starting from
\* the weights the calls found: no increment and no decay is lost.
C14_SerialOrder ==
    \E order \in Orders(DoneCalls) :
        \A token \in LearnTokens :
            TokenAfterCalls(WeightOf(learn_base, token), token, order, 1)
                = WeightOf(learned_threats, token)

\* C14 witness: three calls on descriptions that share the word "data" have
\* all run, the last created first: 0.3, then 5% off, then 0.5 on top
C14_Witness ==
    /\ learn_base = EmptyMap
    /\ Len(learn_calls) = 3
    /\ DoneCalls = {1, 2, 3}
    /\ learn_calls[1].task_description = DescDeleteData
    /\ ~learn_calls[1].was_successful /\ learn_calls[1].impact_severity = 1000
    /\ learn_calls[2].task_description = DescAnalyzeCreate
    /\ learn_calls[2].was_successful
    /\ learn_calls[3].task_description = DescAnalyzeCreate
    /\ ~learn_calls[3].was_successful /\ learn_calls[3].impact_severity = 600
    /\ WeightOf(learned_threats, WordData) = [known |-> TRUE, weight |-> 785000]

\* C15: every learned weight lies between 0 and 5.0, before and after every
\* learn_from_outcome call, whatever the outcomes and their severities
C15_WeightsBounded ==
    \A token \in DOMAIN learned_threats :
        /\ learned_threats[token] >= 0
        /\ learned_threats[token] <= 5 * ScoreUnit

\* C15 witness: a word that stood at 4.5 failed once more with severity 1.0
\* and stands at 5.0, not at 5.0
C15_Witness ==
    /\ WeightOf(learn_base, WordData) = [known |-> TRUE, weight |-> 4500000]
    /\ \E i \in DoneCalls :
          /\ learn_calls[i].task_description = DescDeleteData
          /\ ~learn_calls[i].was_successful
          /\ learn_calls[i].impact_severity = 1000
    /\ DoneCalls # {} /\ Cardinality(DoneCalls) = 1
    /\ WeightOf(learned_threats, WordData) = [known |-> TRUE, weight |-> 5 * ScoreUnit]

-----------------------------------------------------------------------------
(***************************************************************************)
(* Threat score and matched keywords                                       *)
(***************************************************************************)

SameLengthAndType(a, b) ==
    /\ Len(a.task_description) = Len(b.task_description)
    /\ a.task_type = b.task_type

\* b holds the keywords of a and one more; the learned weights are those of a
OneMoreKeyword(a, b) ==
    /\ SameLengthAndType(a, b)
    /\ a.learned = b.learned
    /\ a.detected_patterns.learned = b.detected_patterns.learned
    /\ a.detected_patterns.matches \subseteq b.detected_patterns.matches
    /\ Cardinality(b.detected_patterns.matches) = Cardinality(a.detected_patterns.matches) + 1

\* b is the description of a, assessed when a learned token it holds weighed
\* more and every other token weighed the same
HeavierToken(a, b) ==
    /\ a.task_description = b.task_description
    /\ a.task_type = b.task_type
    /\ \E token \in b.detected_patterns.learned :
          /\ WeightOf(b.learned, token).weight > WeightOf(a.learned, token).weight
          /\ \A other \in (DOMAIN a.learned \cup DOMAIN b.learned) \ {token} :
                WeightOf(b.learned, other).weight = WeightOf(a.learned, other).weight

\* C16: of two assess_threat calls of one description length and task type,
\* the one with one more matched dangerous keyword, or with a heavier matched
\* learned token, has neither the lower score nor the lower ThreatLevel.
C16_ScoreMonotone ==
    \A a, b \in probe_output :
        (OneMoreKeyword(a, b) \/ HeavierToken(a, b)) =>
            /\ b.threat_score >= a.threat_score
            /\ b.threat_level >= a.threat_level

\* C16 witness: "rm my cat there" as a creative task scored 2.65 (LOW); with
\* "key" for "cat" it scored 5.15 (MODERATE), and once "there" had failed
\* twice it scored 3.15 (MODERATE)
C16_Witness ==
    \E a, b, c \in probe_output :
        /\ a.task_description = DescRmCat /\ a.task_type = "creative" /\ a.learned = EmptyMap
        /\ a.threat_score = 2650000 /\ a.threat_level = LOW
        /\ OneMoreKeyword(a, b)
        /\ b.threat_score = 5150000 /\ b.threat_level = MODERATE
        /\ HeavierToken(a, c)
        /\ c.threat_score = 3150000 /\ c.threat_level = MODERATE

-----------------------------------------------------------------------------
(***************************************************************************)
(* The record the capacity pass removes                                    *)
(***************************************************************************)

\* the Experience that store_experience builds from its arguments
StoredExperience(task_id, r, now) ==
    [task_id |-> task_id, task_pattern |-> ExtractTaskPattern(r.description),
     task_type |-> r.task_type,
     result_quality |-> r.quality * (QUnit \div 1000),
     success |-> r.success, execution_time |-> r.execution_time,
     emotional_impact |-> r.emotional_weight, threat_assessment |-> r.threat_level,
     timestamp |-> now, reinforcement_count |-> 1]

\* the episodic store when _manage_memory_capacity is entered: the similar
\* records reinforced, the new record put
BeforeCapacityPass(mem, experience) ==
    LET similar == FindSimilarExperiences(mem, 1, experience.task_pattern, experience.task_type)
        top == SeqToSet(Prefix(similar, 3))
    IN DictPut([i \in 1..Len(mem) |->
                   IF i \in top THEN Reinforce(mem[i], experience.result_quality) ELSE mem[i]],
               experience)

\* reinforcementCount x 0.3 + (success ? 1 : 0.5) x 0.2 + |emotionalImpact| x 0.3
\* + freshness x 0.2, times 10000
Importance(e, now) ==
      e.reinforcement_count * 3000
    + (IF e.success THEN 10 ELSE 5) * 200
    + (IF e.emotional_impact < 0 THEN 0 - e.emotional_impact ELSE e.emotional_impact) * 3
    + FreshnessScore(e, now) * 2

WithoutRecord(mem, i) == [x \in 1..(Len(mem) - 1) |-> IF x < i THEN mem[x] ELSE mem[x + 1]]

\* C17: a store_experience call that puts a record into a full episodic store
\* removes exactly one record, and no record that was present when the
\* capacity pass began, the new one included, was less important than it.
C17_EvictsMinimum ==
    [][\A task_id \in 1..NumExperienceIds, r \in OutcomeReports :
          LET before == BeforeCapacityPass(episodic_memory,
                                           StoredExperience(task_id, r, mem_now))
          IN (/\ mem_stores' = mem_stores + 1
              /\ SetMemory(StoreExperienceOp(MemoryNow, task_id, r.description, r.task_type,
                                             r.quality, r.success, r.execution_time,
                                             r.emotional_weight, r.threat_level, mem_now, MaxEpisodic))
              /\ Len(before) = MaxEpisodic + 1)
             => \E i \in 1..Len(before) :
                   /\ episodic_memory' = WithoutRecord(before, i)
                   /\ \A j \in 1..Len(before) :
                         Importance(before[i], mem_now) <= Importance(before[j], mem_now)]_vars

\* C17 witness: three records were stored and the capacity pass ran once: a
\* failed task's record of day 0 and a record of day 2 stay, the third went
C17_Witness ==
    /\ mem_stores = 3
    /\ memory_stats.memory_consolidations = 1
    /\ memory_stats.total_experiences = 3
    /\ Len(episodic_memory) = MaxEpisodic
    /\ episodic_memory[1].timestamp = 0
    /\ episodic_memory[2].timestamp = 2
    /\ episodic_memory[1].reinforcement_count = 1
    /\ ~episodic_memory[1].success

-----------------------------------------------------------------------------
(***************************************************************************)
(* Conflicts between the three evaluators                                  *)
(***************************************************************************)

\* the task ids the evaluators of a returned call recommended
Recommended(call) ==
    { call.evaluations[i].recommended_task : i \in 1..Len(call.evaluations) } \ {NoTask}

RecommendedBy(call, i) == call.evaluations[i].recommended_task

\* C18: executive_decision takes the evaluations to conflict iff two of the
\* evaluators recommend tasks of different ids; without a conflict the
\* evaluations are integrated (the decision is tagged HYBRID), with one the
\* decision carries the strategy of the evaluation the resolver chose.
C18_ConflictIffDistinct ==
    \A call \in probe_output :
        /\ call.conflict <=>
              \E i, j \in 1..Len(call.evaluations) :
                  /\ RecommendedBy(call, i) # NoTask
                  /\ RecommendedBy(call, j) # NoTask
                  /\ RecommendedBy(call, i) # RecommendedBy(call, j)
        /\ call.conflict <=> call.executive_decision.chosen_strategy # "hybrid"

\* C18 witness: a call whose evaluators recommended task_a, task_b and task_a
\* found a conflict; a call in which all three recommended task_a found none
C18_Witness ==
    \E split, same \in probe_output :
        /\ split.faults = {} /\ same.faults = {}
        /\ <<RecommendedBy(split, 1), RecommendedBy(split, 2), RecommendedBy(split, 3)>>
              = <<"task_a", "task_b", "task_a">>
        /\ split.conflict
        /\ <<RecommendedBy(same, 1), RecommendedBy(same, 2), RecommendedBy(same, 3)>>
              = <<"task_a", "task_a", "task_a">>
        /\ ~same.conflict

FailedEvaluator(call) ==
    CHOOSE i \in 1..Len(call.evaluations) :
        call.evaluations[i].strategy \in call.faults

\* C20: when exactly one of the three evaluators raises, its result carries
\* no recommendation, and the task sequence and the confidence of the
\* decision are those of one of the two other evaluations.
C20_FailedEvaluatorIgnored ==
    \A call \in probe_output :
        Cardinality(call.faults) = 1 =>
            /\ RecommendedBy(call, FailedEvaluator(call)) = NoTask
            /\ \E j \in (1..Len(call.evaluations)) \ {FailedEvaluator(call)} :
                  /\ call.executive_decision.task_sequence = <<RecommendedBy(call, j)>>
                  /\ call.executive_decision.confidence = call.evaluations[j].confidence

-----------------------------------------------------------------------------
(***************************************************************************)
(* All three evaluators raise                                              *)
(***************************************************************************)

\* evaluator i of a returned call raised: its evaluation is the one of its
\* except clause
Threw(call, i) == call.evaluations[i] = FailedEvaluation(call.evaluations[i].strategy)

\* C21: when all three evaluators raise in an executive_decision call, the
\* call returns the conservative fallback Decision: strategy conservative,
\* confidence 0.3, no resource allocation.
C21_AllFailIsConservative ==
    \A call \in probe_output :
        (\A i \in 1..Len(call.evaluations) : Threw(call, i)) =>
            /\ call.executive_decision.kind = "fallback"
            /\ call.executive_decision.chosen_strategy = "conservative"
            /\ call.executive_decision.confidence = 300
            /\ call.executive_decision.resource_allocation = EmptyMap

\* ---------------------------------------------------------------------
\* C22

\* the locals of goal call g that hold the vitals snapshot, the emotional
\* assessment and the selected mode
Snapshot(g) == <<goals[g].system_state, goals[g].emotional_context, goals[g].processing_mode>>

\* the mode of call g is the one selected from its own snapshot and assessment
ModeFromSnapshot(g) ==
    goals[g].processing_mode =
        DetermineProcessingMode(goals[g].system_state.foundation_stable,
                                goals[g].emotional_context,
                                "mode" \in goals[g].faults).mode

\* the evaluator fan-out of call g waits only after the mode was selected, and
\* the decision of a call is the emergency one exactly in emergency mode
DecisionAfterMode(g) ==
    /\ goals[g].pc = "gather" =>
          /\ goals[g].processing_mode \in {"analytical", "intuitive", "maintenance"}
          /\ goals[g].executive_decision = NoDecision
    /\ goals[g].pc \in {"execute", "returned"} =>
          /\ goals[g].executive_decision # NoDecision
          /\ goals[g].executive_decision.kind = "emergency"
                <=> goals[g].processing_mode = "emergency"

\* the result of a call that returned normally reports the mode, the
\* assessment and the decision of the call
ResultFromSnapshot(g) ==
    goals[g].pc = "returned" /\ ~goals[g].result.error =>
        /\ goals[g].result.processing_mode = goals[g].processing_mode
        /\ goals[g].result.emotional_context = goals[g].emotional_context
        /\ goals[g].result.executive_decision = goals[g].executive_decision

\* no step of the program changes the snapshot, the assessment or the mode of
\* a call that has them
SnapshotKept == \A g \in 1..Len(goals) : Snapshot(g)' = Snapshot(g)

\* C22: in every process_goal_neural call the vitals snapshot and the
\* emotional assessment are taken before the mode is selected and the mode is
\* selected before the evaluators are fanned out or the emergency decision is
\* made; the mode and the risk level the decision and the result rest on are
\* those computed from that snapshot, and no feedback pass, monitoring
\* iteration or later stage in between changes them.
C22_DecisionFromSnapshot ==
    /\ [](\A g \in 1..Len(goals) :
             ModeFromSnapshot(g) /\ DecisionAfterMode(g) /\ ResultFromSnapshot(g))
    /\ [][SnapshotKept]_vars

\* C22 witness: a goal call has returned normally with the mode of its
\* snapshot after a feedback pass and a monitoring iteration ran while it was
\* in flight or before.
C22_Witness ==
    \E g \in 1..Len(goals) :
        /\ goals[g].pc = "returned"
        /\ ~goals[g].result.error
        /\ goals[g].result.processing_mode = goals[g].processing_mode
        /\ ModeFromSnapshot(g)
        /\ fb_metrics.total_feedback_cycles >= 1
        /\ kernel_stats.total_checks >= 1

\* ---------------------------------------------------------------------
\* C23

\* start_monitoring has created task i
MonitorStarted(i) == i <= Len(meta_tasks)

\* the polling loop of task i has exited
MonitorEnded(i) == i <= Len(meta_tasks) /\ meta_tasks[i].pc = "done"

\* a task that has polled more than 300 seconds after it started polls no more
NoPollPastLimit ==
    \A i \in 1..Len(meta_tasks) :
        meta_tasks[i].elapsed_time > MaxMonitoringTime =>
            /\ meta_tasks'[i].polled = meta_tasks[i].polled
            /\ meta_tasks'[i].elapsed_time = meta_tasks[i].elapsed_time
            /\ meta_tasks'[i].pc \in {meta_tasks[i].pc, "done"}

\* C23: every monitoring task created by start_monitoring terminates, whatever
\* its assessments produce; the poll that finds more than 300 seconds elapsed
\* since the start of the task is its last one, the loop exits when the sleep
\* of that poll ends.
C23_MonitorTerminates ==
    /\ \A i \in 1..MaxMetaTasks : MonitorStarted(i) ~> MonitorEnded(i)
    /\ [][NoPollPastLimit]_vars

\* C23 witness: monitoring is active, and a task has ended after a poll
\* made more than 300 seconds after its start, an assessment of it having
\* raised.
C23_Witness ==
    /\ monitoring_active
    /\ \E i \in 1..Len(meta_tasks) :
          /\ meta_tasks[i].pc = "done"
          /\ meta_tasks[i].elapsed_time > MaxMonitoringTime
          /\ meta_tasks[i].assessment_errors >= 1

\* ---------------------------------------------------------------------
\* C24

\* the integration level that stands for a processing mode: HIGH is 3,
\* MODERATE is 2
LevelOfMode(processing_mode) ==
    CASE processing_mode = "emergency" -> 3
      [] processing_mode = "analytical" -> SEAMLESS
      [] processing_mode = "intuitive" -> 2
      [] processing_mode = "maintenance" -> BASIC

\* this step is the mode selection and level adaptation of a new goal call
ModeStep == Len(goals') = Len(goals) + 1

\* this step is the outcome step of goal call g
OutcomeStep(g) == goals[g].pc = "execute" /\ goals'[g].pc = "returned"

\* the quality that the outcome step of goal call g hands to
\* optimize_neural_connections
OutcomeQuality(g) ==
    LET execution_result ==
            ExecuteWithNeuralMonitoring(goals[g].executive_decision,
                                        goals[g].emotional_context,
                                        goals[g].processing_mode,
                                        current_integration_level,
                                        "execute" \in goals[g].faults)
    IN IF execution_result.quality # NoQuality THEN execution_result.quality
       ELSE IF execution_result.success THEN 500 ELSE 100

\* the adaptation stage sets the level that stands for the selected mode
LevelFollowsMode ==
    ModeStep /\ "adapt" \notin goals'[Len(goals')].faults =>
        current_integration_level' = LevelOfMode(goals'[Len(goals')].processing_mode)

\* the outcome step moves the level by one at most, up only on a quality
\* above 0.8 and down only on one below 0.3, and does move it on such a
\* quality unless the level is at the end of the range or the learning stage
\* raised
OutcomeNudgesLevel ==
    \A g \in 1..Len(goals) :
        OutcomeStep(g) =>
            LET quality == OutcomeQuality(g)
                level == current_integration_level
                optimized == "learning" \notin goals[g].faults
            IN /\ current_integration_level' \in {level - 1, level, level + 1}
               /\ current_integration_level' = level + 1 => quality > 800
               /\ current_integration_level' = level - 1 => quality < 300
               /\ optimized /\ quality > 800 /\ level < SEAMLESS
                     => current_integration_level' = level + 1
               /\ optimized /\ quality < 300 /\ level > BASIC
                     => current_integration_level' = level - 1

\* C24: after the mode selection and level adaptation of a goal call the
\* integration level is the one mapped from the mode (EMERGENCY to HIGH,
\* ANALYTICAL to SEAMLESS, INTUITIVE to MODERATE, MAINTENANCE to BASIC); the
\* outcome step moves it by one level at most, up when the quality is above
\* 0.8 and down when it is below 0.3, unchanged otherwise; after any sequence
\* of goals it is within BASIC..SEAMLESS.
C24_LevelTracksModeAndOutcome ==
    /\ [](current_integration_level \in BASIC..SEAMLESS)
    /\ [][LevelFollowsMode /\ OutcomeNudgesLevel]_vars

\* C24 witness: two goal calls have returned, one in which no stage raised with
\* the level one above the level mapped from its mode, the other, whose
\* execution stage raised, with a level below the one mapped from its mode.
C24_Witness ==
    \E g, h \in 1..Len(goals) :
        /\ goals[g].pc = "returned" /\ goals[h].pc = "returned"
        /\ goals[g].faults = {}
        /\ goals[g].result.integration_level = LevelOfMode(goals[g].processing_mode) + 1
        /\ "execute" \in goals[h].faults
        /\ goals[h].result.integration_level < LevelOfMode(goals[h].processing_mode)

\* ---------------------------------------------------------------------
\* C25

\* the loops of a type
LoopsOfType(loop_type) == { id \in DOMAIN active_loops : active_loops[id].loop_type = loop_type }

\* 0.05 s and 1.0 s in the unit of update_interval
IntervalFloor == IntervalScale \div 2
IntervalCap == 10 * IntervalScale

\* what one outcome does to the intervals
OutcomeTunesInterval ==
    LET success_metric == probe_input'[1].success_metric
    IN /\ \A id \in LoopsOfType("immediate") :
             LET before == active_loops[id].update_interval
                 after == active_loops'[id].update_interval
             IN /\ success_metric > 800 => after >= before
                /\ success_metric < 300 => after <= before
                /\ success_metric >= 300 /\ success_metric <= 800 => after = before
       /\ \A id \in LoopsOfType("tactical") \cup LoopsOfType("strategic") :
             active_loops'[id].update_interval = active_loops[id].update_interval

\* C25: after any sequence of completed goals the update_interval of the
\* IMMEDIATE loop is within [0.05, 1.0]; an outcome with quality above 0.8
\* never decreases it, one with quality below 0.3 never increases it, any
\* other leaves it unchanged; the TACTICAL and STRATEGIC intervals never
\* change.
C25_ImmediateIntervalBounded ==
    /\ [](\A id \in LoopsOfType("immediate") :
             /\ active_loops[id].update_interval >= IntervalFloor
             /\ active_loops[id].update_interval <= IntervalCap)
    /\ [][OutcomeTunesInterval]_vars

\* C25 witness: a poor outcome has just left the interval of the IMMEDIATE loop
\* at 0.05 s; the TACTICAL and STRATEGIC loops are there with their intervals.
C25_Witness ==
    /\ Len(probe_input) = 1
    /\ probe_input[1].success_metric < 300
    /\ \E id \in LoopsOfType("immediate") : active_loops[id].update_interval = IntervalFloor
    /\ LoopsOfType("tactical") # {} /\ LoopsOfType("strategic") # {}

\* a good outcome has just left the interval of the IMMEDIATE loop at 1.0 s
ImmediateAtCap ==
    /\ Len(probe_input) = 1
    /\ probe_input[1].success_metric > 800
    /\ \E id \in LoopsOfType("immediate") : active_loops[id].update_interval = IntervalCap

\* ---------------------------------------------------------------------
\* C26

\* the band of a score: SAFE up to 1, LOW up to 3, MODERATE up to 6, HIGH up
\* to 10, CRITICAL above
BandOfScore(score) ==
    IF score <= 1 * ScoreUnit THEN SAFE
    ELSE IF score <= 3 * ScoreUnit THEN LOW
    ELSE IF score <= 6 * ScoreUnit THEN MODERATE
    ELSE IF score <= 10 * ScoreUnit THEN HIGH
    ELSE CRITICAL

\* C26: the ThreatLevel that an assess_threat call returns is the band of the
\* score that it returns, on every return path, that of the except clause
\* included.
C26_LevelIsBandOfScore ==
    \A i \in 1..Len(probe_input) :
        probe_input[i].threat_level = BandOfScore(probe_input[i].threat_score)

\* the assess_threat calls that return from the body of the try answer the
\* band of their score
BodyLevelIsBand ==
    \A i \in 1..Len(probe_input) :
        ~probe_input[i].raises =>
            probe_input[i].threat_level = BandOfScore(probe_input[i].threat_score)

\* ---------------------------------------------------------------------
\* C27

\* this step is learn_from_outcome call i running from its first line to its
\* return
LearnStepOf(i) == learn_calls[i].pc = "pending" /\ learn_calls'[i].pc = "done"

\* how many times the description of a call holds a token
Occurrences(call, token) ==
    Cardinality({ k \in 1..Len(CallWords(call)) : CallWords(call)[k] = token })

\* what a learn_from_outcome call does to the weight table
LearnFrame(call) ==
    LET tokens == SeqToSet(CallWords(call))
        long == { token \in tokens : Len(token) > 3 }
        increment == (call.impact_severity * (ScoreUnit \div Milli)) \div 2
    IN IF ~call.was_successful /\ call.impact_severity > 500
       THEN /\ DOMAIN learned_threats' = DOMAIN learned_threats \cup long
            /\ \A token \in long :
                  learned_threats'[token] =
                      Min(WeightOf(learned_threats, token).weight
                              + Occurrences(call, token) * increment,
                          5 * ScoreUnit)
            /\ \A token \in DOMAIN learned_threats \ long :
                  learned_threats'[token] = learned_threats[token]
       ELSE IF ~call.was_successful
       THEN learned_threats' = learned_threats
       ELSE /\ DOMAIN learned_threats' = DOMAIN learned_threats
            /\ \A token \in DOMAIN learned_threats :
                  /\ learned_threats'[token] <= learned_threats[token]
                  /\ learned_threats'[token] =
                        IF token \in tokens
                        THEN Decayed(learned_threats[token], Occurrences(call, token))
                        ELSE learned_threats[token]

\* C27: learn_from_outcome on a failure of severity above 0.5 adds half the
\* severity, up to the limit of 5.0, to the weight of every token of the
\* description longer than 3 characters and changes no other token; on a
\* failure of severity 0.5 or less it leaves the weight table as it is; on a
\* success it multiplies by 0.95 the weight of each token of the description
\* that the table holds, adds no token and raises no weight.
C27_LearnFrame ==
    [][\A i \in 1..Len(learn_calls) : LearnStepOf(i) => LearnFrame(learn_calls[i])]_vars

\* C27 witness: a failure of severity 0.6 of "analyze and create data", a
\* success and a failure of severity 0.5 have been learned, the table holds a
\* weight of 0.3 taken down to 0.285 and no token of three characters or less.
C27_Witness ==
    /\ DoneCalls = 1..Len(learn_calls)
    /\ \E i, j, k \in DoneCalls :
          /\ ~learn_calls[i].was_successful /\ learn_calls[i].impact_severity = 600
          /\ learn_calls[i].task_description = DescAnalyzeCreate
          /\ learn_calls[j].was_successful
          /\ ~learn_calls[k].was_successful /\ learn_calls[k].impact_severity = 500
    /\ \E token \in DOMAIN learned_threats :
          learned_threats[token] = (((3 * ScoreUnit) \div 10) * 95) \div 100
    /\ \A token \in DOMAIN learned_threats : Len(token) > 3

\* ---------------------------------------------------------------------
\* C28

\* evaluation i of a returned call has the highest confidence of the three
HighestConfidence(call, i) ==
    \A j \in 1..Len(call.evaluations) :
        call.evaluations[j].confidence <= call.evaluations[i].confidence

\* C28: when executive_decision finds no conflict between the evaluations,
\* the decision carries the recommended task and the confidence of an
\* evaluation of the highest confidence among the three, and the strategy
\* HYBRID.
C28_NoConflictTakesBest ==
    \A call \in probe_output :
        ~call.conflict =>
            /\ call.executive_decision.chosen_strategy = "hybrid"
            /\ \E i \in 1..Len(call.evaluations) :
                  /\ HighestConfidence(call, i)
                  /\ call.executive_decision.confidence = call.evaluations[i].confidence
                  /\ call.executive_decision.task_sequence =
                        IF RecommendedBy(call, i) # NoTask
                        THEN <<RecommendedBy(call, i)>> ELSE <<>>

\* C28 witness: in a call the rational evaluator raised and the two others
\* recommended task_a; no conflict was found and the decision is that of the
\* emotional evaluation, the one of the highest confidence: task_a with
\* confidence 0.7, HYBRID.
C28_Witness ==
    \E call \in probe_output :
        /\ call.faults = {"rational"}
        /\ ~call.conflict
        /\ HighestConfidence(call, 3)
        /\ ~HighestConfidence(call, 1) /\ ~HighestConfidence(call, 2)
        /\ call.executive_decision.chosen_strategy = "hybrid"
        /\ call.executive_decision.confidence = 700
        /\ call.executive_decision.task_sequence = <<"task_a">>

-----------------------------------------------------------------------------
\* The step is one allocate_attention round
RoundStep == attn_rounds' = attn_rounds + 1

RECURSIVE DrawnUpTo(_, _)
DrawnUpTo(order, k) == IF k = 0 THEN 0 ELSE order[k].required + DrawnUpTo(order, k - 1)

\* What one round did with the pool it found: the grants follow non-increasing
\* priority, each draws the smaller of what its task asks for and what is left
\* of the capacity available at the start, the draws together stay within that
\* capacity, and every grant was made while something was left.
RoundWithinAvailable ==
    LET start == attention_resource.available
        order == last_allocations'.order
    IN /\ \A k \in 1..Len(order) - 1 : order[k].priority >= order[k + 1].priority
       /\ \A k \in 1..Len(order) :
             LET left == start - DrawnUpTo(order, k - 1)
             IN /\ order[k].required = Min(order[k].requested, left)
                /\ left > 0
       /\ DrawnUpTo(order, Len(order)) <= start

\* C29: within one allocate_attention round, candidates are granted in
\* non-increasing priority order, each grant draws min(required_attention,
\* remaining capacity) from the pool, the draws of the round sum to at most
\* the capacity available when the round started, and no candidate is granted
\* once the remaining capacity has reached 0.
C29_RoundDrawsWithinAvailable == [][RoundStep => RoundWithinAvailable]_vars

\* The same statement for the rounds that start with a pool that is not
\* overdrawn (available >= 0): it separates the round's own logic from the
\* accounting of release_attention and _update_attention_resource.
RoundFromSoundPool ==
    [][RoundStep /\ attention_resource.available >= 0 => RoundWithinAvailable]_vars

\* A round has started with less than nothing available
OverdrawnRoundStarted ==
    /\ attn_rounds = MaxRounds + 1
    /\ last_allocations.order = <<>>
    /\ ~last_allocations.exc
    /\ attention_resource.allocated = 0

-----------------------------------------------------------------------------
\* fatigue_level is never negative and efficiency is max(0.1, 1 - fatigue_level)
\* (in units of 0.05: 2 is 0.1 and 20 is 1.0)
FatigueAndEfficiencyInRange ==
    /\ attention_resource.fatigue_level >= 0
    /\ attention_resource.efficiency = Max(2, 20 - attention_resource.fatigue_level)
    /\ attention_resource.efficiency \in 2..20

\* The fatigue after a round, by the load allocated/total the round ends with:
\* up by 0.1 above 0.8, down by 0.05 (not below 0) under 0.3, else unchanged
FatigueFollowsLoad ==
    LET before == attention_resource.fatigue_level
        after == attention_resource'.fatigue_level
        allocated == attention_resource'.allocated
        total == attention_resource'.total_capacity
    IN /\ allocated * 10 > 8 * total => after = before + 2
       /\ allocated * 10 < 3 * total => after = Max(0, before - 1)
       /\ (allocated * 10 <= 8 * total /\ allocated * 10 >= 3 * total) => after = before

\* C30: after any sequence of allocation rounds, fatigue_level >= 0 and
\* efficiency = max(0.1, 1 - fatigue_level) lies in [0.1, 1.0]; a round that
\* ends with allocated/total > 0.8 raises fatigue by exactly 0.1, a round that
\* ends with allocated/total < 0.3 lowers it by 0.05 floored at 0, and any
\* other round leaves fatigue unchanged.
C30_FatigueFollowsLoad ==
    []FatigueAndEfficiencyInRange /\ [][RoundStep => FatigueFollowsLoad]_vars

\* The same statement for the rounds whose body ran to its end, so that
\* _update_attention_resource was called
CompletedRoundFatigue ==
    []FatigueAndEfficiencyInRange
        /\ [][RoundStep /\ ~last_allocations'.exc => FatigueFollowsLoad]_vars

\* A round has raised while the pool was loaded above 0.8 of its capacity
RaisedUnderHighLoad ==
    /\ last_allocations.exc
    /\ attention_resource.allocated * 10 > 8 * attention_resource.total_capacity

-----------------------------------------------------------------------------
\* The step is a store_experience call that put a record with an id of its own
\* into a store that loses nothing: the old records keep their places and the
\* new record is the last one
StoreAppended ==
    /\ mem_stores' = mem_stores + 1
    /\ Len(episodic_memory') = Len(episodic_memory) + 1

\* the stored experiences (positions) similar to the record that was put
SimilarToNew ==
    LET new == episodic_memory'[Len(episodic_memory')]
    IN { i \in 1..Len(episodic_memory) :
            IsSimilarExperience(episodic_memory[i], new.task_pattern, new.task_type) }

\* the stored experiences (positions) the call reinforced
ReinforcedByStore ==
    { i \in 1..Len(episodic_memory) :
         episodic_memory'[i].reinforcement_count
             = episodic_memory[i].reinforcement_count + 1 }

\* the similarity of stored experience i to the new pattern is at least that of j
AtLeastAsSimilar(i, j) ==
    LET new == episodic_memory'[Len(episodic_memory')]
        si == PatternSimilarity(new.task_pattern, episodic_memory[i].task_pattern)
        sj == PatternSimilarity(new.task_pattern, episodic_memory[j].task_pattern)
    IN si[1] * sj[2] >= sj[1] * si[2]

\* the merge of lines 254-258 on the reinforced records, within [0, 1]
MergedAsRunningAverage ==
    \A i \in ReinforcedByStore :
       LET new == episodic_memory'[Len(episodic_memory')]
           rc == episodic_memory'[i].reinforcement_count
       IN /\ episodic_memory'[i].result_quality * rc
                = episodic_memory[i].result_quality * (rc - 1) + new.result_quality
          /\ episodic_memory'[i].result_quality \in 0..QUnit

\* C31: when store_experience finds more than three similar stored
\* experiences, the three that are reinforced (reinforcement_count incremented
\* by 1 and quality merged as a running average with weight
\* 1/reinforcement_count) are the three with the highest similarity to the
\* new experience's pattern; the new record is inserted in addition and the
\* merged quality stays within [0,1].
C31_ReinforcesMostSimilar ==
    [][(StoreAppended /\ Cardinality(SimilarToNew) > 3) =>
          /\ Cardinality(ReinforcedByStore) = 3
          /\ ReinforcedByStore \subseteq SimilarToNew
          /\ MergedAsRunningAverage
          /\ \A i \in ReinforcedByStore, j \in SimilarToNew \ ReinforcedByStore :
                AtLeastAsSimilar(i, j)]_vars

\* What the code does: the three reinforced are the first three similar
\* experiences in the order of the episodic dict
ReinforcesFirstThree ==
    [][(StoreAppended /\ Cardinality(SimilarToNew) > 3) =>
          /\ Cardinality(ReinforcedByStore) = 3
          /\ MergedAsRunningAverage
          /\ \A i \in ReinforcedByStore, j \in SimilarToNew \ ReinforcedByStore : i < j]_vars

-----------------------------------------------------------------------------
\* the tokens of a pattern: pattern.split('_')
PatternTokens(pattern) == SeqToSet(SplitOn(pattern, "_", 1, <<>>))

\* the step is a recall_similar_experiences call
RecallStep == UNCHANGED mem_stores /\ probe_input' # <<>>

\* same task type and Jaccard similarity of the token sets above 0.3
SameTypeAndAlike(experience, query) ==
    /\ experience.task_type = query.task_type
    /\ LET inter == PatternTokens(query.task_pattern) \cap PatternTokens(experience.task_pattern)
           union == PatternTokens(query.task_pattern) \cup PatternTokens(experience.task_pattern)
       IN Cardinality(inter) * 10 > 3 * Cardinality(union)

SharesToken(experience, query) ==
    PatternTokens(query.task_pattern) \cap PatternTokens(experience.task_pattern) # {}

\* C32: a stored experience is treated as similar to a query pattern iff (it
\* has the same task type and the Jaccard similarity of the two token sets is
\* > 0.3) or (the two patterns share at least one token, whatever the task
\* types are, the same type included).
C32_SimilarIffAlikeOrSharing ==
    [][RecallStep =>
          \A i \in 1..Len(episodic_memory) :
             i \in probe_output' <=>
                \/ SameTypeAndAlike(episodic_memory[i], probe_input'[1])
                \/ SharesToken(episodic_memory[i], probe_input'[1])]_vars

\* What the code does: the second test is made only for an experience of
\* another task type, and it asks whether a token of the query occurs
\* anywhere in the stored pattern string
SimilarAsCoded ==
    [][RecallStep =>
          \A i \in 1..Len(episodic_memory) :
             i \in probe_output' <=>
                \/ SameTypeAndAlike(episodic_memory[i], probe_input'[1])
                \/ /\ episodic_memory[i].task_type # probe_input'[1].task_type
                   /\ \E word \in PatternTokens(probe_input'[1].task_pattern) :
                         IsSubstring(word, episodic_memory[i].task_pattern)]_vars

\* the second test alone is at fault only for the same type: with the token
\* test applied to other types only, the claim still fails on substrings
SharingOnlyAcrossTypes ==
    [][RecallStep =>
          \A i \in 1..Len(episodic_memory) :
             i \in probe_output' <=>
                \/ SameTypeAndAlike(episodic_memory[i], probe_input'[1])
                \/ /\ episodic_memory[i].task_type # probe_input'[1].task_type
                   /\ SharesToken(episodic_memory[i], probe_input'[1])]_vars

-----------------------------------------------------------------------------
\* the decision monitor i was started for has completed: its goal call has
\* processed the outcome and returned
DecisionCompleted(i) == goals[meta_tasks[i].decision_id].pc = "returned"

\* the step resumes monitor i (a sleeping task changes only when it is resumed
\* or when its timer runs down)
MonitorResumed(i) ==
    /\ meta_tasks[i].pc \in {"new", "sleep"}
    /\ meta_tasks[i].timer = 0
    /\ meta_tasks'[i] # meta_tasks[i]

\* C33: a per-decision monitor terminates once its decision has completed
\* (the goal's outcome has been processed), without waiting for the 5-minute
\* cap; so the number of monitors still running is bounded by the number of
\* decisions still in flight.  A monitor can notice the completion only when
\* it is resumed: the first time it is resumed after the completion it ends.
C33_MonitorEndsWithDecision ==
    [][\A i \in 1..Len(meta_tasks) :
          (DecisionCompleted(i) /\ MonitorResumed(i)) => meta_tasks'[i].pc = "done"]_vars

\* the count of the claim, to the letter
RunningWithinInFlight ==
    Cardinality({ i \in 1..Len(meta_tasks) : meta_tasks[i].pc # "done" })
        <= Cardinality({ g \in 1..Len(goals) : goals[g].pc # "returned" })

\* What the code does: a monitor ends only at the check of the cap
MonitorEndsOnlyAtCap ==
    [][\A i \in 1..Len(meta_tasks) :
          (meta_tasks[i].pc # "done" /\ meta_tasks'[i].pc = "done")
              => MonitoringExpired(meta_tasks[i].elapsed_time)]_vars

\* a monitor is asleep five minutes after its decision completed
MonitorOutlivesDecision ==
    \E i \in 1..Len(meta_tasks) :
       /\ DecisionCompleted(i)
       /\ meta_tasks[i].pc = "sleep"
       /\ meta_tasks[i].elapsed_time >= MaxMonitoringTime

-----------------------------------------------------------------------------
\* the vitals of a reading at or above their critical threshold, and those at
\* or above their warning threshold and below the critical one
VitalsCritical(reading) ==
    { n \in SeqToSet(VitalNames) : reading[n] >= ThresholdCritical[n] }

VitalsInWarning(reading) ==
    { n \in SeqToSet(VitalNames) :
         reading[n] >= ThresholdWarning[n] /\ reading[n] < ThresholdCritical[n] }

\* C34: for every combination of the four sampled vitals' statuses, the
\* overall status is CRITICAL iff at least one vital is critical, otherwise
\* WARNING iff more than two vitals are in warning, otherwise HEALTHY; each
\* vital is critical iff value >= its critical threshold and warning iff
\* value >= its warning threshold and below the critical one.
C34_OverallStatusTable ==
    \A k \in 1..Len(probe_input) :
       LET call == probe_input[k]
       IN ~call.sampling_raises =>
             /\ \A n \in SeqToSet(VitalNames) :
                   /\ VitalStatusOf(call.reading, n) = "critical"
                         <=> n \in VitalsCritical(call.reading)
                   /\ VitalStatusOf(call.reading, n) = "warning"
                         <=> n \in VitalsInWarning(call.reading)
             /\ call.overall_status = "critical" <=> VitalsCritical(call.reading) # {}
             /\ call.overall_status = "warning"
                   <=> /\ VitalsCritical(call.reading) = {}
                       /\ Cardinality(VitalsInWarning(call.reading)) > 2
             /\ call.overall_status = "healthy"
                   <=> /\ VitalsCritical(call.reading) = {}
                       /\ Cardinality(VitalsInWarning(call.reading)) <= 2

\* a sampled reading with two vitals in warning and none critical came back healthy
C34_Witness ==
    \E k \in 1..Len(probe_input) :
       /\ ~probe_input[k].sampling_raises
       /\ VitalsCritical(probe_input[k].reading) = {}
       /\ Cardinality(VitalsInWarning(probe_input[k].reading)) = 2
       /\ probe_input[k].overall_status = "healthy"

-----------------------------------------------------------------------------
\* max(0, 1 - secondsToDeadline / 86400), times 86400
PressureByFormula(seconds_to_deadline) == Max(0, SecondsPerDay - seconds_to_deadline)

\* C35: for every candidate with a deadline set, the deadline pressure used in
\* its priority equals max(0, 1 - secondsToDeadline/86400), for every value of
\* secondsToDeadline; for a candidate with no deadline it is 0; the resulting
\* priority never exceeds 1.0.
C35_DeadlinePressure ==
    \A k \in 1..Len(probe_input) :
       LET call == probe_input[k]
       IN /\ call.task.deadline # NoDeadline =>
                call.deadline_pressure = PressureByFormula(call.task.deadline - call.now)
          /\ call.task.deadline = NoDeadline => call.deadline_pressure = 0
          /\ call.priority <= PriorityScale

\* What the code does: the formula is applied to a deadline that lies ahead;
\* a deadline that is reached or past gives no pressure at all
PressureOnlyBeforeDeadline ==
    \A k \in 1..Len(probe_input) :
       LET call == probe_input[k]
           seconds_to_deadline == call.task.deadline - call.now
       IN /\ (call.task.deadline # NoDeadline /\ seconds_to_deadline > 0) =>
                call.deadline_pressure = PressureByFormula(seconds_to_deadline)
          /\ (call.task.deadline # NoDeadline /\ seconds_to_deadline <= 0) =>
                call.deadline_pressure = 0
          /\ call.task.deadline = NoDeadline => call.deadline_pressure = 0
          /\ call.priority <= PriorityScale

-----------------------------------------------------------------------------
\* the step begins a goal call that selects EMERGENCY mode
EmergencyBegins ==
    /\ Len(goals') = Len(goals) + 1
    /\ goals'[Len(goals')].processing_mode = "emergency"

\* the step is one of emergency goal g, up to its return
EmergencyGoes(g) ==
    /\ goals[g].processing_mode = "emergency"
    /\ goals'[g] # goals[g]

\* the decision engine: the working-memory buffers, the capacity pool and its
\* active tasks, the decision history, the strategy-performance record and
\* the per-decision monitors
EngineUnchanged ==
    UNCHANGED <<phonological_loop, visuospatial_sketchpad, episodic_buffer,
                attention_resource, active_tasks, decision_history,
                strategy_performance, meta_tasks, monitoring_history_len>>

\* C36: processing a goal in EMERGENCY mode does not run the three evaluators
\* and leaves the decision engine unchanged: the working-memory buffers, the
\* capacity pool (allocated, available, fatigue, active tasks), the decision
\* history and the strategy-performance record are the same after the goal as
\* before it, and no per-decision monitor is started.
C36_EmergencyBypassesEngine ==
    /\ [](\A g \in 1..Len(goals) :
             goals[g].processing_mode = "emergency" => goals[g].pc # "gather")
    /\ [][/\ EmergencyBegins => EngineUnchanged
          /\ \A g \in 1..Len(goals) : EmergencyGoes(g) => EngineUnchanged]_vars

\* an emergency goal has returned, its outcome was learned from, and the
\* decision history held the decision of another goal
C36_Witness ==
    \E g \in 1..Len(goals) :
       /\ goals[g].processing_mode = "emergency"
       /\ goals[g].pc = "returned"
       /\ goals[g].faults = {}
       /\ components.executive_controller
       /\ \E h \in 1..Len(decision_history) : decision_history[h].decision_id < g

-----------------------------------------------------------------------------
\* C37: after any sequence of allocate_attention and release_attention
\* calls (a release of a task granted in an earlier round, a round on an empty
\* candidate list or on an empty pool included), both allocated and available
\* lie between 0 and total_capacity.
C37_PoolWithinBounds ==
    /\ 0 <= attention_resource.allocated
    /\ attention_resource.allocated <= attention_resource.total_capacity
    /\ 0 <= attention_resource.available
    /\ attention_resource.available <= attention_resource.total_capacity

\* C37, as the code has it: the pool stays within its bounds as long as no
\* task has been released.
PoolWithinBoundsBeforeRelease ==
    attn_releases = 0 => C37_PoolWithinBounds

\* C37: a release has taken more off the allocated sum than the last round
\* had put on it.
ReleasedBelowZero ==
    /\ attn_releases >= 1
    /\ attention_resource.allocated < 0
    /\ attention_resource.available > attention_resource.total_capacity

-----------------------------------------------------------------------------
\* the continuous_monitoring tasks that have not ended
AliveLoops ==
    {i \in 1..Len(mon_tasks) : mon_tasks[i].pc \notin {"done", "cancelled"}}

\* the tasks that may still take a sample: alive and not cancelled
SamplingLoops == {i \in AliveLoops : ~mon_tasks[i].cancelling}

\* a monitoring task takes a sample in this step
SampleTaken == kernel_stats'.total_checks = kernel_stats.total_checks + 1

\* the sample of this step is taken by the task the kernel holds, and no other
\* task is in a position to take one
SampledByTheOneLoop ==
    /\ monitoring_task \in SamplingLoops
    /\ mon_tasks'[monitoring_task] # mon_tasks[monitoring_task]
    /\ SamplingLoops = {monitoring_task}

\* every start_neural_kernel and stop_neural_kernel call has returned
AllCallsReturned == stop_waiters = <<>>

\* C38: under any interleaving of start_neural_kernel and stop_neural_kernel
\* calls, a start made while a stop waits for the cancelled loop included, at
\* most one continuous_monitoring loop is taking samples, and once every call
\* has returned a loop is alive exactly when always_running is true.
C38_OneLoopSampling ==
    /\ [](Cardinality(SamplingLoops) <= 1)
    /\ [][SampleTaken => SampledByTheOneLoop]_vars
    /\ [](AllCallsReturned => (always_running <=> AliveLoops # {}))

\* C38: a start was made while a stop is waiting for the cancelled loop to
\* exit, and the loop of that start has taken a sample.
C38_Witness ==
    /\ Len(mon_tasks) = 2
    /\ stop_waiters = <<1>>
    /\ mon_tasks[1].pc = "sleep"
    /\ mon_tasks[1].cancelling
    /\ monitoring_task = 2
    /\ mon_tasks[2].pc = "sleep"
    /\ always_running
    /\ kernel_stats.total_checks = 2

-----------------------------------------------------------------------------
\* the executive_decision calls whose evaluators disagreed
ConflictingCalls == {call \in probe_output : call.conflict}

\* C39: when the three evaluators disagree inside executive_decision and the
\* available_resources of the context is not negative, the conflict is
\* classified as a priority conflict and the resolver returns the evaluation
\* of the first, the rational, evaluator; the temporal, the strategy and the
\* generic resolver are never reached from executive_decision.
C39_AlwaysPriorityConflict ==
    \A call \in ConflictingCalls :
        /\ call.context.available_resources >= 0
              => /\ call.conflict_type = "priority_conflict"
                 /\ call.resolved_evaluation = call.evaluations[1]
                 /\ call.evaluations[1].strategy = "rational"
        /\ call.conflict_type
              \notin {"temporal_conflict", "strategy_conflict", "generic_conflict"}

\* C39 witness: a conflict was resolved in a context without resources left
\* as a priority conflict, and the evaluation of the rational evaluator, which
\* had failed and recommends nothing, was returned all the same; a conflict in
\* a context of negative resources was classified as a resource conflict.
C39_Witness ==
    \E a, c \in ConflictingCalls :
        /\ a.context.available_resources = 0
        /\ a.conflict_type = "priority_conflict"
        /\ "rational" \in a.faults
        /\ a.resolved_evaluation.recommended_task = NoTask
        /\ c.context.available_resources < 0
        /\ c.conflict_type = "resource_conflict"

-----------------------------------------------------------------------------
\* the quality of the execution of goal call g scored with the level that
\* stands for the mode of g
OwnQuality(g) ==
    LET execution_result ==
            ExecuteWithNeuralMonitoring(goals[g].executive_decision,
                                        goals[g].emotional_context,
                                        goals[g].processing_mode,
                                        LevelOfMode(goals[g].processing_mode),
                                        "execute" \in goals[g].faults)
    IN IF execution_result.quality # NoQuality THEN execution_result.quality
       ELSE IF execution_result.success THEN 500 ELSE 100

\* the level derived from the mode of goal call g and the quality of its outcome
OwnLevel(g) ==
    OptimizeIntegrationLevel(LevelOfMode(goals[g].processing_mode), OwnQuality(g))

\* the execution of goal call g is scored with the level of its own mode, and
\* the result of a call in which no stage raised records the level derived
\* from its own mode and outcome
ScoredAndRecordedWithOwnLevel(g) ==
    /\ "adapt" \notin goals[g].faults
          => current_integration_level = LevelOfMode(goals[g].processing_mode)
    /\ goals[g].faults = {}
          => goals'[g].result.integration_level = OwnLevel(g)

\* C40: when two goals are processed concurrently by process_goal_neural, the
\* integration level used for the execution scoring of each goal and recorded
\* in its result is the level derived from the mode and the outcome quality
\* of that goal, whatever the mode selection and the outcome of the other.
C40_OwnLevelPerGoal ==
    [][\A g \in 1..Len(goals) : OutcomeStep(g) => ScoredAndRecordedWithOwnLevel(g)]_vars

\* C40, for a goal processed alone: a call that is the only one made is scored
\* with the level of its own mode and records the level derived from it.
OwnLevelWhenAlone ==
    [][Len(goals) = 1 /\ OutcomeStep(1) => ScoredAndRecordedWithOwnLevel(1)]_vars

\* C40: two calls in which no stage raised have returned, and the result of
\* one of them records a level that is not the one derived from its own mode
\* and outcome.
OtherGoalsLevelRecorded ==
    \E g, h \in 1..Len(goals) :
        /\ g # h
        /\ goals[g].pc = "returned" /\ goals[h].pc = "returned"
        /\ goals[g].faults = {} /\ goals[h].faults = {}
        /\ goals[g].processing_mode # goals[h].processing_mode
        /\ goals[g].result.integration_level # OwnLevel(g)

====
